---- MODULE Spec2Model ----
(***************************************************************************)
(* State-machine model of the xexr_rts simulation core:                    *)
(* src/services/GameEngine.ts (the engine, its commands and its per-tick   *)
(* update), the queueUnit command of src/App.tsx, and the type catalog of  *)
(* src/constants.ts.                                                       *)
(*                                                                         *)
(* Numbers.  The engine computes with floating-point pixels.  The model    *)
(* is fixed-point: every position and length is an integer number of       *)
(* tenths of a pixel (Px(n) is n pixels), which represents the catalog's   *)
(* speeds 0.3, 0.4 and 0.5 exactly.  Distance comparisons are done on      *)
(* squared distances and are exact; a normalised step (dx/d)*speed is      *)
(* rounded toward zero to a tenth of a pixel, and is exact whenever the    *)
(* movement is parallel to an axis.                                        *)
(*                                                                         *)
(* Objects.  Entities are JavaScript objects held by reference: in the     *)
(* unit and building arrays, in other units' targetUnit and in             *)
(* projectiles' target.  The model keeps them in a heap `ents` (reference  *)
(* -> object); `units` and `buildings` are sequences of references.  An    *)
(* object filtered out of its array stays in the heap for as long as a     *)
(* unit or a projectile still refers to it, as it does in the program.     *)
(***************************************************************************)
EXTENDS Integers, Sequences, FiniteSets, TLC

VARIABLES
    tick,              \* GameEngine.tick
    credits,           \* GameEngine.credits
    power,             \* GameEngine.power
    wave,              \* GameEngine.wave
    buildMode,         \* GameEngine.buildMode (NoType when null)
    productionQueues,  \* GameEngine.productionQueues
    ents,              \* the heap of Entity objects
    buildings,         \* GameEngine.buildings, as references
    units,             \* GameEngine.units, as references
    projectiles,       \* GameEngine.projectiles
    particles,         \* GameEngine.particles
    orePatches,        \* GameEngine.orePatches
    hasBuildings,      \* App's React state hasBuildings
    gameOver,          \* App's React state gameOver
    messages,          \* what the last step passed to onMessage, in order
    gameOverCalls      \* how often onGameOver has been invoked so far

vars == << tick, credits, power, wave, buildMode, productionQueues, ents,
           buildings, units, projectiles, particles, orePatches,
           hasBuildings, gameOver, messages, gameOverCalls >>

----------------------------------------------------------------------------
(* Numbers and vectors *)

\* n pixels in the model's unit, a tenth of a pixel.
Px(n) == n * 10

Abs(n) == IF n < 0 THEN -n ELSE n

Max(a, b) == IF a >= b THEN a ELSE b

Min(a, b) == IF a <= b THEN a ELSE b

\* a / b rounded toward zero (b > 0).
TruncDiv(a, b) == IF a >= 0 THEN a \div b ELSE -((-a) \div b)

\* Math.floor(a / b) for b > 0.
FloorDiv(a, b) == a \div b

RECURSIVE IsqrtFrom(_, _)
IsqrtFrom(n, r) ==
    LET s == (r + n \div r) \div 2
    IN  IF s >= r THEN r ELSE IsqrtFrom(n, s)

\* floor(sqrt(n)), by Newton's iteration from above.
Isqrt(n) == IF n <= 0 THEN 0 ELSE IF n < 4 THEN 1 ELSE IsqrtFrom(n, n \div 2)

Vec(x, y) == [x |-> x, y |-> y]

\* null / undefined for a Vector, an Entity reference, an EntityType, a queue.
NoPos == [x |-> -1, y |-> -1]
NoId == 0
NoType == "none"
NoQueue == [type |-> NoType, progress |-> 0, total |-> 0]

\* dist(v1, v2) squared.
DistSq(v1, v2) == (v1.x - v2.x) * (v1.x - v2.x) + (v1.y - v2.y) * (v1.y - v2.y)

\* dist(v1, v2) < r, r in pixels.
DistLess(v1, v2, r) == DistSq(v1, v2) < Px(r) * Px(r)

RECURSIVE Gcd(_, _)
Gcd(a, b) == IF b = 0 THEN a ELSE Gcd(b, a % b)

\* Math.atan2(dy, dx), as the direction it denotes: the vector (dx, dy)
\* reduced to lowest terms; atan2(0, 0) = 0 is the direction of (1, 0).
Atan2(dy, dx) ==
    IF dx = 0 /\ dy = 0 THEN Vec(1, 0)
    ELSE LET g == Gcd(Abs(dx), Abs(dy)) IN Vec(TruncDiv(dx, g), TruncDiv(dy, g))

\* The angle 0 a new entity's turretAngle holds.
AngleZero == Vec(1, 0)

----------------------------------------------------------------------------
(* src/constants.ts and src/types.ts *)

TILE_SIZE == 40

BuildingTypes ==
    {"CONSTRUCTION_YARD", "POWER_PLANT", "REFINERY", "BARRACKS", "FACTORY", "CANNON"}

UnitTypes == {"INFANTRY", "TANK", "HARVESTER"}

EntityType == BuildingTypes \cup UnitTypes \cup {"ORE"}

\* One catalog entry.  w and h are in tenths of a tile (the catalog has 0.5),
\* speed in tenths of a pixel per tick, the rest as in the source; an absent
\* optional field is 0, which `||` treats as it treats undefined.
Def(w, h, hp, cost, pw, speed, range, damage, fireRate, buildTime, radius, capacity) ==
    [w |-> w, h |-> h, hp |-> hp, cost |-> cost, power |-> pw, speed |-> speed,
     range |-> range, damage |-> damage, fireRate |-> fireRate,
     buildTime |-> buildTime, radius |-> radius, capacity |-> capacity]

DEFINITIONS ==
    [t \in EntityType |->
        CASE t = "CONSTRUCTION_YARD" -> Def(30, 30, 5000, 0, 20, 0, 0, 0, 0, 0, 0, 0)
          [] t = "POWER_PLANT" -> Def(20, 20, 800, 300, 50, 0, 0, 0, 0, 0, 0, 0)
          [] t = "REFINERY" -> Def(30, 20, 1500, 1500, -30, 0, 0, 0, 0, 0, 0, 0)
          [] t = "BARRACKS" -> Def(20, 20, 1000, 600, -10, 0, 0, 0, 0, 0, 0, 0)
          [] t = "FACTORY" -> Def(30, 30, 2000, 2000, -40, 0, 0, 0, 0, 0, 0, 0)
          [] t = "CANNON" -> Def(10, 10, 800, 800, -20, 0, 250, 40, 60, 0, 0, 0)
          [] t = "INFANTRY" -> Def(5, 5, 80, 100, 0, 3, 120, 5, 20, 2000, 6, 0)
          [] t = "TANK" -> Def(10, 10, 400, 800, 0, 5, 180, 35, 90, 5000, 16, 0)
          [] t = "HARVESTER" -> Def(10, 10, 600, 1000, 0, 4, 0, 0, 0, 4000, 16, 500)
          [] t = "ORE" -> Def(10, 10, 100, 0, 0, 0, 0, 0, 0, 0, 0, 0)]

\* def.w * TILE_SIZE and def.h * TILE_SIZE, in tenths of a pixel.
FootW(type) == DEFINITIONS[type].w * TILE_SIZE
FootH(type) == DEFINITIONS[type].h * TILE_SIZE

Teams == {"player", "enemy"}

QueueKeys == {"barracks", "factory"}

----------------------------------------------------------------------------
(* The state as one value, so that a handler is a function on it *)

World ==
    [tick |-> tick, credits |-> credits, power |-> power, wave |-> wave,
     buildMode |-> buildMode, productionQueues |-> productionQueues,
     ents |-> ents, buildings |-> buildings, units |-> units,
     projectiles |-> projectiles, particles |-> particles,
     orePatches |-> orePatches, hasBuildings |-> hasBuildings,
     gameOver |-> gameOver, messages |-> messages,
     gameOverCalls |-> gameOverCalls]

\* The next state is w.
Install(w) ==
    /\ tick' = w.tick
    /\ credits' = w.credits
    /\ power' = w.power
    /\ wave' = w.wave
    /\ buildMode' = w.buildMode
    /\ productionQueues' = w.productionQueues
    /\ ents' = w.ents
    /\ buildings' = w.buildings
    /\ units' = w.units
    /\ projectiles' = w.projectiles
    /\ particles' = w.particles
    /\ orePatches' = w.orePatches
    /\ hasBuildings' = w.hasBuildings
    /\ gameOver' = w.gameOver
    /\ messages' = w.messages
    /\ gameOverCalls' = w.gameOverCalls

\* A notification: its text and, for a deposit or a wave, its number.
Msg(text, n) == [text |-> text, n |-> n]

\* b => b.type === type && b.team === team, on a reference.
IsOf(w, id, type, team) == w.ents[id].type = type /\ w.ents[id].team = team

\* this.buildings.some(b => b.type === type && b.team === team)
SomeBuilding(w, type, team) ==
    \E i \in 1..Len(w.buildings) : IsOf(w, w.buildings[i], type, team)

\* this.buildings.find(b => b.type === type && b.team === team); NoId if none.
FindBuilding(w, type, team) ==
    IF SomeBuilding(w, type, team)
    THEN w.buildings[CHOOSE i \in 1..Len(w.buildings) :
            /\ IsOf(w, w.buildings[i], type, team)
            /\ \A j \in 1..(i - 1) : ~IsOf(w, w.buildings[j], type, team)]
    ELSE NoId

\* engine.onUpdateUI as App binds it: the part of React's state that a
\* command reads back, hasBuildings.
OnUpdateUI(w) ==
    [w EXCEPT !.hasBuildings =
        [barracks |-> SomeBuilding(w, "BARRACKS", "player"),
         factory |-> SomeBuilding(w, "FACTORY", "player")]]

\* engine.onMessage as App binds it.
OnMessage(w, m) == [w EXCEPT !.messages = Append(@, m)]

\* engine.onGameOver as App binds it: setGameOver(true).
OnGameOver(w) == [w EXCEPT !.gameOver = TRUE, !.gameOverCalls = @ + 1]

----------------------------------------------------------------------------
(* createEntity *)

\* `type in [CONSTRUCTION_YARD, POWER_PLANT, REFINERY, BARRACKS, FACTORY]`:
\* JavaScript's `in` asks whether the left operand is a property name of the
\* array, that is one of its indices or "length", not whether it is an element.
InSnapList(type) == type \in {"0", "1", "2", "3", "4", "length"}

\* def.radius || (Math.max(def.w, def.h) * TILE_SIZE) / 2
RadiusOf(type) ==
    LET def == DEFINITIONS[type]
    IN  IF def.radius # 0 THEN Px(def.radius)
        ELSE (Max(def.w, def.h) * TILE_SIZE) \div 2

\* The position createEntity gives the entity.
SpawnPos(x, y, type) ==
    IF InSnapList(type)
    THEN Vec(FloorDiv(x, Px(TILE_SIZE)) * Px(TILE_SIZE) + FootW(type) \div 2,
             FloorDiv(y, Px(TILE_SIZE)) * Px(TILE_SIZE) + FootH(type) \div 2)
    ELSE Vec(x, y)

\* The hit points createEntity gives the entity.
SpawnHp(type) == DEFINITIONS[type].hp

createEntity(x, y, type, team) ==
    [type |-> type, team |-> team, pos |-> SpawnPos(x, y, type),
     hp |-> SpawnHp(type), maxHp |-> DEFINITIONS[type].hp, dead |-> FALSE,
     radius |-> RadiusOf(type), selected |-> FALSE, targetPos |-> NoPos,
     targetUnit |-> NoId, cooldown |-> 0, cargo |-> 0,
     harvestState |-> "idle", turretAngle |-> AngleZero,
     sinceShot |-> DEFINITIONS[type].fireRate]

\* A reference not in use: the object createEntity allocates.
NewId(heap) == CHOOSE i \in 1..(Cardinality(DOMAIN heap) + 1) : i \notin DOMAIN heap

\* The heap with object e at reference id.
Alloc(heap, id, e) == [i \in DOMAIN heap \cup {id} |-> IF i = id THEN e ELSE heap[i]]

\* this.units.push(e)
PushUnit(w, e) ==
    LET id == NewId(w.ents)
    IN  [w EXCEPT !.ents = Alloc(w.ents, id, e), !.units = Append(@, id)]

\* this.buildings.push(e)
PushBuilding(w, e) ==
    LET id == NewId(w.ents)
    IN  [w EXCEPT !.ents = Alloc(w.ents, id, e), !.buildings = Append(@, id)]

\* this.particles.push({pos, vel, life, color}); velocity and colour are only drawn.
PushParticle(w, pos, life) ==
    [w EXCEPT !.particles = Append(@, [pos |-> pos, life |-> life])]

----------------------------------------------------------------------------
(* calculatePower, getNearestEnemy, fireProjectile *)

RECURSIVE SumPower(_, _)
\* produced - consumed over the player's buildings from index i on.
SumPower(w, i) ==
    IF i > Len(w.buildings) THEN 0
    ELSE LET b == w.ents[w.buildings[i]]
         IN  (IF b.team = "player" THEN DEFINITIONS[b.type].power ELSE 0)
             + SumPower(w, i + 1)

\* A calculatePower that, unlike the one below, leaves the stored balance.
PowerKept(w) == OnUpdateUI(w)

calculatePower(w) == OnUpdateUI([w EXCEPT !.power = SumPower(w, 1)])

\* A side that, unlike HostileTeam below, makes getNearestEnemy find the
\* player's own entities.
OwnTeam == "player"

\* The team getNearestEnemy looks for.
HostileTeam == "enemy"

RECURSIVE NearestIn(_, _, _, _, _)
\* The forEach of getNearestEnemy over one array: best is << minDst squared,
\* nearest >> so far.
NearestIn(w, ids, i, pos, best) ==
    IF i > Len(ids) THEN best
    ELSE LET e == w.ents[ids[i]]
             d == DistSq(pos, e.pos)
         IN  IF e.team = HostileTeam /\ ~e.dead /\ d < best[1]
             THEN NearestIn(w, ids, i + 1, pos, << d, ids[i] >>)
             ELSE NearestIn(w, ids, i + 1, pos, best)

\* getNearestEnemy(pos, range), range in pixels; NoId for null.
getNearestEnemy(w, pos, range) ==
    LET u == NearestIn(w, w.units, 1, pos, << Px(range) * Px(range), NoId >>)
    IN  IF u[2] # NoId THEN u[2]
        ELSE NearestIn(w, w.buildings, 1, pos, u)[2]

\* The projectile carries, besides the fields of the code, its age: the
\* number of projectile phases it has flown through, which no code reads.
\* The source carries sinceShot, which no code reads either: the number of
\* frames that have ended since the one it last fired in, counted up to its
\* fireRate (Elapse below counts; the frame of the shot ends at 0).
fireProjectile(w, source, target, damage) ==
    [w EXCEPT !.projectiles =
                 Append(@, [pos |-> w.ents[source].pos, target |-> target,
                            damage |-> damage, age |-> 0]),
              !.ents[source].sinceShot = -1]

----------------------------------------------------------------------------
(* update, phase 1: production *)

\* queue.progress += 16
ProgressPerTick == 16

\* The frames an order for type takes: ceil(buildTime(type) / 16).
BuildTicks(type) ==
    (DEFINITIONS[type].buildTime + ProgressPerTick - 1) \div ProgressPerTick

\* A gate that lets everything through.
PowerIgnored(p) == TRUE

\* The power gate of production and of the cannons: this.power >= 0.
PowerOk(p) == p >= 0

\* key === 'barracks' ? EntityType.BARRACKS : EntityType.FACTORY
SpawnerType(key) == IF key = "barracks" THEN "BARRACKS" ELSE "FACTORY"

\* A completion test that asks for more than the total.
CompleteLate(progress, total) == progress > total

\* if (queue.progress >= queue.total)
Complete(progress, total) == progress >= total

\* The body of the forEach over the queues, for one key.
AdvanceQueue(w, key) ==
    LET queue == w.productionQueues[key]
        progress == queue.progress + ProgressPerTick
        spawner == FindBuilding(w, SpawnerType(key), "player")
        spawned ==
            IF spawner # NoId
            THEN OnMessage(
                    PushUnit(w, createEntity(w.ents[spawner].pos.x,
                                             w.ents[spawner].pos.y + Px(50),
                                             queue.type, "player")),
                    Msg("Unit Ready", 0))
            ELSE w
        advanced == [w EXCEPT !.productionQueues[key].progress = progress]
    IN  IF queue = NoQueue THEN w
        ELSE IF Complete(progress, queue.total)
        THEN OnUpdateUI([spawned EXCEPT !.productionQueues[key] = NoQueue])
        ELSE IF w.tick % 10 = 0 THEN OnUpdateUI(advanced)
        ELSE advanced

Production(w) ==
    IF PowerOk(w.power)
    THEN AdvanceQueue(AdvanceQueue(w, "barracks"), "factory")
    ELSE w

----------------------------------------------------------------------------
(* update, phase 2: cannons *)

\* A countdown that, unlike CooldownStep below, does not stop at zero.
CooldownDrop(c) == c - 1

\* A cooldown that has not elapsed loses one tick: if (c > 0) c--.
CooldownStep(c) == IF c > 0 THEN c - 1 ELSE c

\* The body of the forEach over the buildings, for one building.
CannonStep(w, id) ==
    LET b == w.ents[id]
        target == getNearestEnemy(w, b.pos, DEFINITIONS["CANNON"].range)
        t == w.ents[target]
        fired == fireProjectile(w, id, target, DEFINITIONS["CANNON"].damage)
    IN  IF ~(b.team = "player" /\ b.type = "CANNON") THEN w
        ELSE IF ~PowerOk(w.power) THEN w
        ELSE IF b.cooldown > 0
        THEN [w EXCEPT !.ents[id].cooldown = CooldownStep(b.cooldown)]
        ELSE IF target = NoId THEN w
        ELSE [fired EXCEPT
                !.ents[id].turretAngle = Atan2(t.pos.y - b.pos.y, t.pos.x - b.pos.x),
                !.ents[id].cooldown = DEFINITIONS["CANNON"].fireRate]

RECURSIVE BuildingsFrom(_, _)
\* this.buildings.forEach from index i on.
BuildingsFrom(w, i) ==
    IF i > Len(w.buildings) THEN w
    ELSE BuildingsFrom(CannonStep(w, w.buildings[i]), i + 1)

BuildingsLogic(w) == BuildingsFrom(w, 1)

----------------------------------------------------------------------------
(* update, phase 3: units *)

\* An unloading that, unlike Unload below, leaves the cargo aboard.
UnloadKeepingCargo(w, id, rpos) ==
    OnUpdateUI(OnMessage(
        [w EXCEPT !.credits = @ + w.ents[id].cargo,
                  !.ents[id].harvestState = "idle",
                  !.ents[id].targetPos = rpos],
        Msg("Credits", w.ents[id].cargo)))

\* The deposit of a loaded harvester within 60 px of the refinery at rpos:
\* credits += cargo, "+<cargo> Credits", cargo = 0, harvestState = 'idle'.
Unload(w, id, rpos) ==
    OnUpdateUI(OnMessage(
        [w EXCEPT !.credits = @ + w.ents[id].cargo,
                  !.ents[id].harvestState = "idle",
                  !.ents[id].targetPos = rpos,
                  !.ents[id].cargo = 0],
        Msg("Credits", w.ents[id].cargo)))

updateHarvester(w, id) ==
    LET u == w.ents[id]
        def == DEFINITIONS["HARVESTER"]
        cap == IF def.capacity # 0 THEN def.capacity ELSE 500
        refinery == FindBuilding(w, "REFINERY", "player")
        rpos == w.ents[refinery].pos
        deposited == Unload(w, id, rpos)
        ore == w.orePatches[1]
        loaded == u.cargo + 10
        harvested ==
            PushParticle(
                [w EXCEPT !.ents[id].cargo = loaded,
                          !.ents[id].harvestState =
                              IF loaded >= cap THEN "returning" ELSE @],
                u.pos, 10)
    IN  IF u.cargo >= cap
        THEN IF refinery = NoId
             THEN [w EXCEPT !.ents[id].harvestState = "returning"]
             ELSE IF DistLess(u.pos, rpos, 60) THEN deposited
             ELSE [w EXCEPT !.ents[id].harvestState = "returning",
                            !.ents[id].targetPos = rpos]
        ELSE IF u.harvestState \in {"idle", "moving_to_ore"}
        THEN IF Len(w.orePatches) = 0 THEN w
             ELSE IF DistLess(u.pos, ore.pos, 30)
             THEN [w EXCEPT !.ents[id].harvestState = "harvesting",
                            !.ents[id].targetPos = NoPos]
             ELSE [w EXCEPT !.ents[id].harvestState = "moving_to_ore",
                            !.ents[id].targetPos = ore.pos]
        ELSE IF u.harvestState = "harvesting" /\ w.tick % 10 = 0 THEN harvested
        ELSE w

\* An AI block that assigns nothing.
AiIdle(w, id) == w

\* "AI Logic": a hostile unit with no order is given the player's yard.
AiTarget(w, id) ==
    LET u == w.ents[id]
        hq == FindBuilding(w, "CONSTRUCTION_YARD", "player")
    IN  IF u.team = "enemy" /\ u.targetUnit = NoId /\ u.targetPos = NoPos /\ hq # NoId
        THEN [w EXCEPT !.ents[id].targetUnit = hq]
        ELSE w

\* "Auto-Targeting for Idle Units".
AutoTarget(w, id) ==
    LET u == w.ents[id]
        def == DEFINITIONS[u.type]
        target == getNearestEnemy(w, u.pos, IF def.range # 0 THEN def.range ELSE 150)
    IN  IF u.targetUnit = NoId /\ u.targetPos = NoPos /\ u.type # "HARVESTER"
           /\ target # NoId
        THEN [w EXCEPT !.ents[id].targetUnit = target]
        ELSE w

\* d <= (def.range || 0) for the unit and its target.
InRange(w, id) ==
    LET u == w.ents[id]
        r == Px(DEFINITIONS[u.type].range)
    IN  DistSq(u.pos, w.ents[u.targetUnit].pos) <= r * r

\* moveTarget as the "Movement & Attack" block leaves it.
MoveTarget(w, id) ==
    LET u == w.ents[id]
    IN  IF u.targetUnit = NoId \/ w.ents[u.targetUnit].dead THEN u.targetPos
        ELSE IF InRange(w, id) THEN NoPos
        ELSE w.ents[u.targetUnit].pos

\* A test that, unlike CooldownElapsed below, lets a unit fire in every frame.
AlwaysLoaded(c) == TRUE

\* The unit may fire: if (u.cooldown <= 0).
CooldownElapsed(c) == c <= 0

\* The "Movement & Attack" block's effect on the state.
Attack(w, id) ==
    LET u == w.ents[id]
        def == DEFINITIONS[u.type]
        t == w.ents[u.targetUnit]
        faced == [w EXCEPT !.ents[id].turretAngle =
                      Atan2(t.pos.y - u.pos.y, t.pos.x - u.pos.x)]
    IN  IF u.targetUnit = NoId THEN w
        ELSE IF t.dead THEN [w EXCEPT !.ents[id].targetUnit = NoId]
        ELSE IF ~InRange(w, id) THEN w
        ELSE IF CooldownElapsed(u.cooldown)
        THEN [fireProjectile(faced, id, u.targetUnit, def.damage)
                EXCEPT !.ents[id].cooldown = def.fireRate]
        ELSE faced

RECURSIVE Repulsion(_, _, _)
\* The "Simple repulsion" sum over the units from index i on.
Repulsion(w, id, i) ==
    IF i > Len(w.units) THEN Vec(0, 0)
    ELSE LET rest == Repulsion(w, id, i + 1)
             u == w.ents[id]
             other == w.ents[w.units[i]]
         IN  IF w.units[i] # id /\ DistLess(u.pos, other.pos, 20)
             THEN Vec(rest.x + (u.pos.x - other.pos.x), rest.y + (u.pos.y - other.pos.y))
             ELSE rest

\* The `if (moveTarget)` block.
Movement(w, id, moveTarget) ==
    LET u == w.ents[id]
        def == DEFINITIONS[u.type]
        dx == moveTarget.x - u.pos.x
        dy == moveTarget.y - u.pos.y
        dsq == dx * dx + dy * dy
        d == Isqrt(dsq)
        speed == IF def.speed # 0 THEN def.speed ELSE Px(1)
        r == Repulsion(w, id, 1)
    IN  IF moveTarget = NoPos THEN w
        ELSE IF dsq > speed * speed
        THEN [w EXCEPT !.ents[id].pos =
                Vec(u.pos.x + TruncDiv(dx * speed, d) + TruncDiv(r.x * 5, 100),
                    u.pos.y + TruncDiv(dy * speed, d) + TruncDiv(r.y * 5, 100))]
        ELSE IF u.targetUnit = NoId THEN [w EXCEPT !.ents[id].targetPos = NoPos]
        ELSE w

\* The body of the forEach over the units, for one unit.
UnitStep(w, id) ==
    LET w1 == IF w.ents[id].type = "HARVESTER" /\ w.ents[id].team = "player"
              THEN updateHarvester(w, id) ELSE w
        w3 == AutoTarget(AiTarget(w1, id), id)
        w4 == Attack(w3, id)
        w5 == [w4 EXCEPT !.ents[id].cooldown = CooldownStep(@)]
    IN  Movement(w5, id, MoveTarget(w3, id))

RECURSIVE UnitsFrom(_, _)
\* this.units.forEach from index i on.
UnitsFrom(w, i) ==
    IF i > Len(w.units) THEN w
    ELSE UnitsFrom(UnitStep(w, w.units[i]), i + 1)

UnitsLogic(w) == UnitsFrom(w, 1)

----------------------------------------------------------------------------
(* update, phases 4 to 7 *)

\* The sequence without its i-th element: splice(i, 1).
RemoveAt(seq, i) == SubSeq(seq, 1, i - 1) \o SubSeq(seq, i + 1, Len(seq))

\* An impact that, unlike Damaged below, adds the damage.
Healed(hp, damage) == hp + damage

\* p.target.hp -= p.damage
Damaged(hp, damage) == hp - damage

\* if (p.target.hp <= 0) p.target.dead = true
DeadAfter(dead, hp) == dead \/ hp <= 0

\* A flight that, unlike Flown below, leaves the projectile where it is.
Stalled(pos, dx, dy, d) == pos

\* p.pos.x += (dx/d) * 10; p.pos.y += (dy/d) * 10
Flown(pos, dx, dy, d) ==
    Vec(pos.x + TruncDiv(dx * Px(10), d), pos.y + TruncDiv(dy * Px(10), d))

\* The body of the projectile loop for the projectile at index i.
ProjectileStep(w, i) ==
    LET p == w.projectiles[i]
        t == w.ents[p.target]
        dx == t.pos.x - p.pos.x
        dy == t.pos.y - p.pos.y
        dsq == dx * dx + dy * dy
        d == Isqrt(dsq)
        hp == Damaged(t.hp, p.damage)
    IN  IF dsq < Px(10) * Px(10)
        THEN PushParticle(
                [w EXCEPT !.ents[p.target].hp = hp,
                          !.ents[p.target].dead = DeadAfter(@, hp),
                          !.projectiles = RemoveAt(@, i)],
                t.pos, 10)
        ELSE [w EXCEPT !.projectiles[i].pos = Flown(p.pos, dx, dy, d),
                       !.projectiles[i].age = @ + 1]

RECURSIVE ProjectilesFrom(_, _)
\* for (let i = ...; i >= 0; i--), from index i down.
ProjectilesFrom(w, i) ==
    IF i < 1 THEN w ELSE ProjectilesFrom(ProjectileStep(w, i), i - 1)

ProjectilesLogic(w) == ProjectilesFrom(w, Len(w.projectiles))

\* A filter that keeps everything.
SurvivesAnyway(e) == TRUE

\* u => !u.dead, the test of both filters of the cleanup.
Survives(e) == ~e.dead

\* "5. Cleanup".
Cleanup(w) ==
    LET Kept(id) == Survives(w.ents[id])
        Lives(p) == p.life > 0
        left == SelectSeq(w.particles, Lives)
    IN  [w EXCEPT !.units = SelectSeq(@, Kept),
                  !.buildings = SelectSeq(@, Kept),
                  !.particles = [i \in 1..Len(left) |->
                                    [left[i] EXCEPT !.life = @ - 1]]]

\* "Every 90s = 5400 ticks".
WaveInterval == 5400

\* this.tick % 5400 === 0 && this.tick > 0
IsWaveTick(t) == t % WaveInterval = 0 /\ t > 0

\* A wave size that, unlike WaveCount below, rounds the half unit up.
WaveRoundedUp(wv) == (wv * 3 + 1) \div 2 + 2

\* Math.floor(this.wave * 1.5) + 2
WaveCount(wv) == (wv * 3) \div 2 + 2

\* i % 3 === 0 ? EntityType.TANK : EntityType.INFANTRY
WaveUnitType(i) == IF i % 3 = 0 THEN "TANK" ELSE "INFANTRY"

RECURSIVE SpawnWave(_, _, _, _)
\* The spawn loop from i on (i counts from 0); jitter[i + 1] is the pixel
\* offset (Math.random() - 0.5) * 500 drawn for unit i.
SpawnWave(w, i, count, jitter) ==
    IF i >= count THEN w
    ELSE SpawnWave(
            PushUnit(w, createEntity(Px(2000), Px(1000 + jitter[i + 1]),
                                     WaveUnitType(i), "enemy")),
            i + 1, count, jitter)

\* "6. Wave Logic".
WaveLogic(w, jitter) ==
    IF IsWaveTick(w.tick)
    THEN OnUpdateUI(
            [SpawnWave(OnMessage(w, Msg("Wave Incoming", w.wave)),
                       0, WaveCount(w.wave), jitter)
                EXCEPT !.wave = @ + 1])
    ELSE w

\* "7. Win/Loss".
WinLoss(w) ==
    IF FindBuilding(w, "CONSTRUCTION_YARD", "player") = NoId THEN OnGameOver(w) ELSE w

\* The references some array, unit or projectile still holds.
Referenced(w) ==
    {w.buildings[i] : i \in 1..Len(w.buildings)}
        \cup {w.units[i] : i \in 1..Len(w.units)}
        \cup ({w.ents[w.units[i]].targetUnit : i \in 1..Len(w.units)} \ {NoId})
        \cup {w.projectiles[i].target : i \in 1..Len(w.projectiles)}

\* The heap without the objects nothing refers to any more.
Collect(w) == [w EXCEPT !.ents = [i \in DOMAIN @ \cap Referenced(w) |-> @[i]]]

\* The end of a frame for sinceShot: one more frame has ended since every
\* entity's last shot.
Elapse(w) ==
    [w EXCEPT !.ents =
        [i \in DOMAIN w.ents |->
            [w.ents[i] EXCEPT
                !.sinceShot = Min(DEFINITIONS[w.ents[i].type].fireRate, @ + 1)]]]

\* update(): one tick.  jitter holds the random offsets a wave would draw.
update(w, jitter) ==
    LET started == [w EXCEPT !.tick = @ + 1, !.messages = << >>]
        fought == ProjectilesLogic(UnitsLogic(BuildingsLogic(Production(started))))
    IN  Collect(Elapse(WinLoss(WaveLogic(Cleanup(fought), jitter))))

----------------------------------------------------------------------------
(* Commands: tryPlaceBuilding, queueUnit, selectUnits, issueCommand *)

\* A funds test that, unlike CanAfford below, lets every placement through.
OnCredit(cr, cost) == TRUE

\* The funds test of tryPlaceBuilding: !(this.credits < def.cost).
CanAfford(cr, cost) == ~(cr < cost)

Rect(x, y, wd, ht) == [x |-> x, y |-> y, w |-> wd, h |-> ht]

\* checkRect for a click at mouse with build mode type.
CheckRect(mouse, type) ==
    Rect(FloorDiv(mouse.x, Px(TILE_SIZE)) * Px(TILE_SIZE),
         FloorDiv(mouse.y, Px(TILE_SIZE)) * Px(TILE_SIZE),
         FootW(type), FootH(type))

\* bRect of building b.
FootRect(b) ==
    Rect(b.pos.x - FootW(b.type) \div 2, b.pos.y - FootH(b.type) \div 2,
         FootW(b.type), FootH(b.type))

\* A test that, unlike Overlaps below, sees only two footprints with the
\* same corner.
SameCorner(a, b) == a.x = b.x /\ a.y = b.y

\* The axis-aligned overlap test of tryPlaceBuilding.
Overlaps(a, b) ==
    a.x < b.x + b.w /\ a.x + a.w > b.x /\ a.y < b.y + b.h /\ a.y + a.h > b.y

\* A collision test that, unlike Collision below, finds every site free.
SiteAlwaysFree(w, rect) == FALSE

\* const collision = this.buildings.some(...)
Collision(w, rect) ==
    \E i \in 1..Len(w.buildings) : Overlaps(rect, FootRect(w.ents[w.buildings[i]]))

\* What tryPlaceBuilding does on a rejection for lack of funds: it returns.
RejectFunds(w) == w

\* The `if (!collision)` branch.
PlaceAt(w, rect) ==
    LET paid == [w EXCEPT !.credits = @ - DEFINITIONS[w.buildMode].cost]
        b == createEntity(rect.x + rect.w \div 2, rect.y + rect.h \div 2,
                          w.buildMode, "player")
        built == PushBuilding(paid, b)
        manned ==
            IF w.buildMode = "REFINERY"
            THEN PushUnit(built, createEntity(b.pos.x, b.pos.y + Px(60),
                                              "HARVESTER", "player"))
            ELSE built
    IN  OnUpdateUI(calculatePower([manned EXCEPT !.buildMode = NoType]))

\* tryPlaceBuilding() with the pointer at world position mouse.
tryPlaceBuilding(w, mouse) ==
    LET rect == CheckRect(mouse, w.buildMode)
    IN  IF w.buildMode = NoType THEN w
        ELSE IF ~CanAfford(w.credits, DEFINITIONS[w.buildMode].cost) THEN RejectFunds(w)
        ELSE IF ~Collision(w, rect) THEN PlaceAt(w, rect)
        ELSE OnMessage(w, Msg("Cannot build here!", 0))

\* A funds test that, unlike QueueLacksFunds below, turns away only an
\* empty purse.
Broke(cr, cost) == cr <= 0

\* The funds test of queueUnit: credits < def.cost.
QueueLacksFunds(cr, cost) == cr < cost

\* A slot test that, unlike QueueBusy below, never finds the slot taken.
SlotNeverBusy(w, key) == FALSE

\* The slot test of queueUnit: productionQueues[buildingKey] is truthy.
QueueBusy(w, key) == w.productionQueues[key] # NoQueue

\* A building test that, unlike QueueHasBuilding below, always finds one.
BuildingAssumed(w, key) == TRUE

\* The building test of queueUnit: hasBuildings[buildingKey], React's state.
QueueHasBuilding(w, key) == w.hasBuildings[key]

\* An entry that, unlike QueueEntry below, takes the default total whatever
\* the build time of the type.
EntryOfThousand(type) == [type |-> type, progress |-> 0, total |-> 1000]

\* The entry queueUnit installs.
QueueEntry(type) ==
    [type |-> type, progress |-> 0,
     total |-> IF DEFINITIONS[type].buildTime # 0
               THEN DEFINITIONS[type].buildTime ELSE 1000]

\* App.queueUnit(type, buildingKey).
queueUnit(w, type, key) ==
    IF QueueLacksFunds(w.credits, DEFINITIONS[type].cost)
    THEN OnMessage(w, Msg("Insufficient Funds", 0))
    ELSE IF QueueBusy(w, key) THEN OnMessage(w, Msg("Production Busy", 0))
    ELSE IF ~QueueHasBuilding(w, key) THEN OnMessage(w, Msg("Building Required", 0))
    ELSE [w EXCEPT !.credits = @ - DEFINITIONS[type].cost,
                   !.productionQueues[key] = QueueEntry(type)]

\* selectUnits() for a drag from start to mouse.
selectUnits(w, start, mouse) ==
    LET x1 == Min(start.x, mouse.x)
        y1 == Min(start.y, mouse.y)
        x2 == Max(start.x, mouse.x)
        y2 == Max(start.y, mouse.y)
        isClick == Abs(x2 - x1) < Px(5) /\ Abs(y2 - y1) < Px(5)
        Picked(u) ==
            IF isClick THEN DistLess(u.pos, mouse, 20)
            ELSE u.pos.x > x1 /\ u.pos.x < x2 /\ u.pos.y > y1 /\ u.pos.y < y2
        IsUnit(id) == \E i \in 1..Len(w.units) : w.units[i] = id
    IN  OnUpdateUI(
            [w EXCEPT !.ents =
                [id \in DOMAIN w.ents |->
                    IF IsUnit(id) /\ w.ents[id].team = "player"
                    THEN [w.ents[id] EXCEPT !.selected = Picked(w.ents[id])]
                    ELSE w.ents[id]]])

\* The first element of ids that is hostile and within r pixels of mouse.
FindHostile(w, ids, mouse, r) ==
    LET Hit(i) == w.ents[ids[i]].team = "enemy" /\ DistLess(w.ents[ids[i]].pos, mouse, r)
    IN  IF \E i \in 1..Len(ids) : Hit(i)
        THEN ids[CHOOSE i \in 1..Len(ids) : Hit(i) /\ \A j \in 1..(i - 1) : ~Hit(j)]
        ELSE NoId

\* The target issueCommand resolves the click to.
CommandTarget(w, mouse) ==
    LET enemy == FindHostile(w, w.units, mouse, 20)
    IN  IF enemy # NoId THEN enemy ELSE FindHostile(w, w.buildings, mouse, 40)

\* An order that sets the clicked point as destination beside the target.
OrderedBoth(u, target, mouse) == [u EXCEPT !.targetUnit = target, !.targetPos = mouse]

\* The order issueCommand gives one selected unit of the player.
Ordered(u, target, mouse) ==
    IF target # NoId
    THEN [u EXCEPT !.targetUnit = target, !.targetPos = NoPos]
    ELSE [u EXCEPT !.targetPos = mouse, !.targetUnit = NoId,
                   !.harvestState = IF u.type = "HARVESTER" THEN "idle" ELSE @]

RECURSIVE CommandFrom(_, _, _, _)
\* The forEach of issueCommand from index i on.
CommandFrom(w, i, target, mouse) ==
    IF i > Len(w.units) THEN w
    ELSE LET id == w.units[i]
             u == w.ents[id]
         IN  IF u.selected /\ u.team = "player"
             THEN CommandFrom(
                    PushParticle([w EXCEPT !.ents[id] = Ordered(u, target, mouse)],
                                 mouse, 20),
                    i + 1, target, mouse)
             ELSE CommandFrom(w, i + 1, target, mouse)

\* issueCommand() with the pointer at world position mouse.
issueCommand(w, mouse) ==
    LET cleared == OnUpdateUI([w EXCEPT !.buildMode = NoType])
    IN  CommandFrom(cleared, 1, CommandTarget(cleared, mouse), mouse)

----------------------------------------------------------------------------
(* The initial state *)

\* for (let i = 0; i < 20; i++) this.orePatches.push(...)
OreCount == 20

\* Where the first ore patch, the only one a harvester goes to, may lie.
OreSites == {Vec(Px(1260), Px(1110))}

\* The ore patches of initLevel: the first at site, the others on a diagonal
\* of the square Math.random() spreads them over.
InitOre(site) ==
    [i \in 1..OreCount |->
        [pos |-> IF i = 1 THEN site ELSE Vec(Px(500 + 50 * i), Px(500 + 50 * i)),
         amount |-> 1000]]

\* The engine as `new GameEngine(canvas)` leaves it, with App's callbacks
\* bound: initLevel has run, and the constructor's call of loop() has run
\* update() once, on a world with nothing to do.
Fresh(site) ==
    LET hq == createEntity(Px(1000), Px(1000), "CONSTRUCTION_YARD", "player")
        built == PushBuilding(
                    [tick |-> 0, credits |-> 2500, power |-> 0, wave |-> 1,
                     buildMode |-> NoType,
                     productionQueues |-> [k \in QueueKeys |-> NoQueue],
                     ents |-> << >>, buildings |-> << >>, units |-> << >>,
                     projectiles |-> << >>, particles |-> << >>,
                     orePatches |-> InitOre(site),
                     hasBuildings |-> [k \in QueueKeys |-> FALSE],
                     gameOver |-> FALSE, messages |-> << >>, gameOverCalls |-> 0],
                    hq)
    IN  [built EXCEPT !.power = SumPower(built, 1), !.tick = 1]

\* The state is w.
StateIs(w) ==
    /\ tick = w.tick
    /\ credits = w.credits
    /\ power = w.power
    /\ wave = w.wave
    /\ buildMode = w.buildMode
    /\ productionQueues = w.productionQueues
    /\ ents = w.ents
    /\ buildings = w.buildings
    /\ units = w.units
    /\ projectiles = w.projectiles
    /\ particles = w.particles
    /\ orePatches = w.orePatches
    /\ hasBuildings = w.hasBuildings
    /\ gameOver = w.gameOver
    /\ messages = w.messages
    /\ gameOverCalls = w.gameOverCalls

\* The same engine after the player has left it alone until tick t: update()
\* on a world with one building, no unit and no queue changes the tick only,
\* as long as no wave is due (t < WaveInterval).
Idle(site, t) == [Fresh(site) EXCEPT !.tick = t]

\* The ticks, besides the first, that the model starts from: two frames
\* before the first wave, and those of the states below.
BeforeWave == WaveInterval - 2
HarvestTick == 3199
ApproachTick == 6950
FirstShellTick == 7035
FirstWaveTick == 7107
ForgeTick == 3701
RolloutTick == 3824
PicketTick == 12128
SiegeTick == 15234
RubbleTick == 15237

\* The click of a build button and then of the map at mouse.
Build(w, type, mouse) == tryPlaceBuilding([w EXCEPT !.buildMode = type], mouse)

\* The engine after the player has, before the second frame, placed a
\* barracks, ordered a rifleman, and spent the rest on a refinery (which
\* brings a harvester) and a power plant, on free ground right of the yard
\* that leaves the build sites below free.
Built(site) ==
    LET barracks == Build(Fresh(site), "BARRACKS", Vec(Px(1320), Px(1080)))
        ordered == queueUnit(barracks, "INFANTRY", "barracks")
        refinery == Build(ordered, "REFINERY", Vec(Px(1200), Px(1120)))
    IN  Build(refinery, "POWER_PLANT", Vec(Px(1320), Px(1000)))

\* The engine at tick 3199 when the player has then left it alone: the
\* rifleman stands below the barracks, five loads of ore have been paid in,
\* and the harvester is two frames from paying in the sixth.  IdleSpec below
\* replays the run that leads here.
Harvest(site) ==
    LET harvester == [createEntity(12600, 11396, "HARVESTER", "player") EXCEPT
                        !.cargo = 490, !.harvestState = "harvesting"]
    IN  [Fresh(site) EXCEPT
            !.tick = HarvestTick,
            !.power = 30,
            !.ents = << Fresh(site).ents[1],
                        createEntity(Px(1360), Px(1120), "BARRACKS", "player"),
                        createEntity(Px(1260), Px(1160), "REFINERY", "player"),
                        harvester,
                        createEntity(Px(1360), Px(1040), "POWER_PLANT", "player"),
                        createEntity(Px(1360), Px(1170), "INFANTRY", "player") >>,
            !.buildings = << 1, 2, 3, 5 >>,
            !.units = << 4, 6 >>,
            !.hasBuildings = [barracks |-> TRUE, factory |-> FALSE],
            !.particles = << [pos |-> harvester.pos, life |-> 0] >>]

\* A hostile unit of the states below: on the line y = 1000, ordered onto the
\* yard (reference 1).
Foe(type, x, cooldown, angle) ==
    [createEntity(x, Px(1000), type, "enemy") EXCEPT
        !.targetUnit = 1, !.cooldown = cooldown, !.turretAngle = angle,
        !.sinceShot = IF cooldown > 0 THEN DEFINITIONS[type].fireRate - 1 - cooldown
                      ELSE @]

\* The engine at tick 6950 when the player has left it alone from the start
\* and the first wave drew the offset 0: its three units are on their way to
\* the yard, the tank 34 px from where the yard comes in its range.  IdleSpec
\* below replays the run that leads here.
Approach(site) ==
    [Fresh(site) EXCEPT
        !.tick = ApproachTick,
        !.wave = 2,
        !.ents = << Fresh(site).ents[1],
                    Foe("TANK", 12140, 0, AngleZero),
                    Foe("INFANTRY", 15397, 0, AngleZero),
                    Foe("INFANTRY", 15401, 0, AngleZero) >>,
        !.units = << 2, 3, 4 >>]

\* The engine at tick 7035 when the player has left it alone from the start
\* and the first wave drew the offset 0: the first shell of its tank is two
\* frames from the yard, which is still whole.  IdleSpec below replays the
\* run that leads here.
FirstShell(site) ==
    [Fresh(site) EXCEPT
        !.tick = FirstShellTick,
        !.wave = 2,
        !.ents = << Fresh(site).ents[1],
                    Foe("TANK", 11800, 73, Vec(-1, 0)),
                    Foe("INFANTRY", 15142, 0, AngleZero),
                    Foe("INFANTRY", 15146, 0, AngleZero) >>,
        !.units = << 2, 3, 4 >>,
        !.projectiles =
            << [pos |-> Vec(10100, 10000), target |-> 1, damage |-> 35, age |-> 17] >>]

\* The engine at tick 7107 when the player has left it alone from the start
\* and the first wave drew the offset 0: its tank stands in range of the yard,
\* has hit it once and is one tick from reloading; its riflemen are on the way.
\* IdleSpec below replays the run that leads here.
FirstWave(site) ==
    [Fresh(site) EXCEPT
        !.tick = FirstWaveTick,
        !.wave = 2,
        !.ents = << [Fresh(site).ents[1] EXCEPT !.hp = 4965],
                    Foe("TANK", 11800, 1, Vec(-1, 0)),
                    Foe("INFANTRY", 14926, 0, AngleZero),
                    Foe("INFANTRY", 14930, 0, AngleZero) >>,
        !.units = << 2, 3, 4 >>]

\* The play that leads from Harvest to Forge below: a second power plant and
\* a factory placed with these clicks, and one more load of the harvester.
ForgePlantClick == Vec(Px(1640), Px(1000))
ForgeFactoryClick == Vec(Px(1480), Px(1000))

\* The base with barracks and factory, powered, the frame the harvester has
\* unloaded: funds for a tank or a harvester, and a rifleman.
Forge(site) ==
    LET harvester == [createEntity(12600, 11400, "HARVESTER", "player") EXCEPT
                        !.targetPos = Vec(12600, 11600)]
    IN  [Harvest(site) EXCEPT
            !.tick = ForgeTick,
            !.credits = 1200,
            !.power = 40,
            !.ents = << Harvest(site).ents[1], Harvest(site).ents[2],
                        Harvest(site).ents[3], harvester,
                        Harvest(site).ents[5], Harvest(site).ents[6],
                        createEntity(Px(1680), Px(1040), "POWER_PLANT", "player"),
                        createEntity(Px(1540), Px(1060), "FACTORY", "player") >>,
            !.buildings = << 1, 2, 3, 5, 7, 8 >>,
            !.hasBuildings = [barracks |-> TRUE, factory |-> TRUE],
            !.particles = << [pos |-> Vec(12600, 11396), life |-> 8] >>,
            !.messages = << Msg("Credits", 500) >>]

\* 123 frames after a rifleman was ordered in Forge: the order is two frames
\* from its completion, and the harvester is loading again.
Rollout(site) ==
    [Forge(site) EXCEPT
        !.tick = RolloutTick,
        !.credits = 1100,
        !.productionQueues["barracks"] =
            [type |-> "INFANTRY", progress |-> 1968, total |-> 2000],
        !.ents[4] = [createEntity(12600, 11396, "HARVESTER", "player") EXCEPT
                        !.cargo = 120, !.harvestState = "harvesting"],
        !.particles = << [pos |-> Vec(12600, 11396), life |-> 5] >>,
        !.messages = << >>]

\* The play that leads to Picket below: a barracks placed with this click,
\* on the way of the waves, this many riflemen ordered one after the other,
\* and every unit of the two waves drawing this offset.
PicketClick == Vec(Px(1400), Px(920))
PicketSize == 11
PicketOffset == 23

\* The engine at tick 12128 of that play: the riflemen stand where the
\* barracks put them, all on one spot; they have shot the first wave and one
\* tank of the second, and the other tank, under their fire (their last
\* volley was 19 frames ago), is 20.2 px from them on its way to the yard.  PicketSpec below replays the run that leads
\* here.
Picket(site) ==
    LET rifleman == [createEntity(14400, 10100, "INFANTRY", "player") EXCEPT
                        !.targetUnit = 14, !.turretAngle = Vec(79, 65),
                        !.sinceShot = DEFINITIONS["INFANTRY"].fireRate - 1]
        foe(type, x) == [createEntity(x, 10230, type, "enemy") EXCEPT
                            !.targetUnit = 1]
    IN  [Fresh(site) EXCEPT
            !.tick = PicketTick,
            !.credits = 800,
            !.power = 10,
            !.wave = 3,
            !.hasBuildings = [barracks |-> TRUE, factory |-> FALSE],
            !.ents = [i \in (1..16) \cup {18} |->
                        IF i = 1 THEN Fresh(site).ents[1]
                        ELSE IF i = 2 THEN createEntity(14400, 9600, "BARRACKS", "player")
                        ELSE IF i < 14 THEN rifleman
                        ELSE IF i = 14 THEN [foe("TANK", 14554) EXCEPT !.hp = 125]
                        ELSE IF i = 15 THEN foe("INFANTRY", 17359)
                        ELSE IF i = 16 THEN foe("INFANTRY", 17344)
                        ELSE foe("INFANTRY", 17566)],
            !.buildings = << 1, 2 >>,
            !.units = << 3, 4, 5, 6, 7, 8, 9, 10, 11, 12, 13, 14, 15, 16, 18 >>]

\* The engine at tick 15234 when the player has left it alone from the start
\* and every wave drew the offset 0: the units of waves 1 and 2 stand before
\* the yard, which has 25 hit points left, and two tank shells are in flight.
\* IdleSpec below replays the run that leads here.
Siege(site) ==
    LET west == Vec(-1, 0)
    IN  [Fresh(site) EXCEPT
            !.tick = SiegeTick,
            !.wave = 3,
            !.ents = << [Fresh(site).ents[1] EXCEPT !.hp = 25],
                        Foe("TANK", 11800, 64, west),
                        Foe("INFANTRY", 11398, 0, AngleZero),
                        Foe("INFANTRY", 11198, 2, west),
                        Foe("TANK", 11800, 73, west),
                        Foe("INFANTRY", 12005, 0, AngleZero),
                        Foe("INFANTRY", 12001, 0, AngleZero),
                        Foe("TANK", 11796, 76, west),
                        Foe("INFANTRY", 12210, 0, AngleZero) >>,
            !.units = << 2, 3, 4, 5, 6, 7, 8, 9 >>,
            !.projectiles =
                << [pos |-> Vec(10100, 10000), target |-> 1, damage |-> 35, age |-> 17],
                   [pos |-> Vec(10396, 10000), target |-> 1, damage |-> 35, age |-> 14] >>,
            !.particles =
                << [pos |-> Vec(10000, 10000), life |-> 2],
                   [pos |-> Vec(10000, 10000), life |-> 3] >>]

\* Three frames after Siege: the yard is swept (a shell still flies at it),
\* the game-over signal was given twice, and the besiegers have dropped their
\* dead target.
Rubble(site) ==
    LET west == Vec(-1, 0)
        Idler(type, x, cooldown, angle) ==
            [Foe(type, x, cooldown, angle) EXCEPT !.targetUnit = NoId]
    IN  [Siege(site) EXCEPT
            !.tick = RubbleTick,
            !.ents = << [Fresh(site).ents[1] EXCEPT !.hp = -10, !.dead = TRUE],
                        Idler("TANK", 11800, 61, west),
                        Idler("INFANTRY", 11401, 0, AngleZero),
                        Idler("INFANTRY", 11198, 0, west),
                        Idler("TANK", 11800, 70, west),
                        Idler("INFANTRY", 11999, 0, AngleZero),
                        Idler("INFANTRY", 12014, 0, AngleZero),
                        Idler("TANK", 11796, 73, west),
                        Idler("INFANTRY", 12213, 0, AngleZero) >>,
            !.buildings = << >>,
            !.projectiles =
                << [pos |-> Vec(10096, 10000), target |-> 1, damage |-> 35, age |-> 17] >>,
            !.particles =
                << [pos |-> Vec(10000, 10000), life |-> 0],
                   [pos |-> Vec(10000, 10000), life |-> 8] >>,
            !.gameOver = TRUE,
            !.gameOverCalls = 2]

----------------------------------------------------------------------------
(* Inputs and bounds *)

\* Ticks the model runs from each of its starting states.
Horizon == 3

\* Particles beyond which the model offers no further command click.
MaxParticles == 1

\* Frames FlightSpec runs on after the Horizon, for the projectiles in flight
\* to land: more than the 25 the longest shot, a cannon's at 250 px, takes.
FlightFrames == 30

\* Frames OrderSpec runs after the orders: more than the 313 a tank takes.
OrderFrames == 315

\* Frames VolleySpec runs on after the Horizon: more than the 90 a tank and
\* the 61 a cannon take from one shot to the next.
VolleyFrames == 92

\* Frames an order of CompletionSpec is at most away from its completion, and
\* frames CompletionSpec runs.
LastTicks == 3

\* What the sidebar's build buttons pass to setBuildMode.
Buildable == {"POWER_PLANT", "REFINERY", "BARRACKS", "FACTORY", "CANNON"}

\* What the sidebar's unit buttons pass to queueUnit.
UnitButtons ==
    {<< "INFANTRY", "barracks" >>, << "TANK", "factory" >>, << "HARVESTER", "factory" >>}

\* World positions of the pointer for a placement click: on the yard, on
\* free ground, and one tile right of that (free only beside a cannon).
BuildSites == {Vec(Px(1000), Px(1000)), Vec(Px(1200), Px(1000)), Vec(Px(1240), Px(1000))}

\* Drags of the pointer for a selection: a box around the ground right of the
\* yard, a click where a refinery on the free ground puts its harvester, and
\* a click where the barracks of Picket puts its riflemen.
SelectDrags ==
    {<< Vec(Px(1100), Px(900)), Vec(Px(1400), Px(1200)) >>,
     << Vec(Px(1260), Px(1100)), Vec(Px(1260), Px(1100)) >>,
     << Vec(Px(1440), Px(1010)), Vec(Px(1440), Px(1010)) >>}

\* World positions of the pointer for a command click: open ground, where a
\* wave appears, and on the riflemen of the second wave in Picket.
CommandPoints ==
    {Vec(Px(1300), Px(1100)), Vec(Px(2000), Px(1000)), Vec(Px(1735), Px(1023))}

\* Pixel offsets (Math.random() - 0.5) * 500 a wave may draw.
JitterSet == {0}

\* The ticks the starting states are taken at.
StartTicks ==
    {1, HarvestTick, BeforeWave, ApproachTick, FirstShellTick, FirstWaveTick,
     PicketTick, SiegeTick, RubbleTick, RolloutTick}

----------------------------------------------------------------------------
(* The state machine *)

Init ==
    \E site \in OreSites :
        \/ StateIs(Fresh(site))
        \/ StateIs(Built(site))
        \/ StateIs(Harvest(site))
        \/ StateIs(Idle(site, BeforeWave))
        \/ StateIs(Approach(site))
        \/ StateIs(FirstShell(site))
        \/ StateIs(FirstWave(site))
        \/ StateIs(Picket(site))
        \/ StateIs(Siege(site))
        \/ StateIs(Rubble(site))
        \/ StateIs(Rollout(site))

\* The state a handler starts from: `messages` collects its notifications.
Begin == [World EXCEPT !.messages = << >>]

\* The player can reach the canvas and the sidebar: once gameOver is set, App
\* renders the "MISSION FAILED" overlay over both (absolute inset-0 z-50), and
\* only its restart button, which reloads the page, takes a click.
Playable == ~gameOver

\* One frame: loop() calls update().
Tick ==
    /\ \E s \in StartTicks : s <= tick /\ tick < s + Horizon
    /\ \E jitter \in [1..(IF IsWaveTick(tick + 1) THEN WaveCount(wave) ELSE 0) -> JitterSet] :
          Install(update(World, jitter))

\* App.setBuildMode(type), a build button of the sidebar.
SetBuildMode(type) ==
    /\ Playable
    /\ Install([Begin EXCEPT !.buildMode = type])

\* handleMouseDown, left button, in build mode.
TryPlaceBuilding(mouse) ==
    /\ Playable
    /\ buildMode # NoType
    /\ Install(tryPlaceBuilding(Begin, mouse))

\* A call of App.queueUnit(type, key) with the arguments of a unit button of
\* the sidebar.  The sidebar disables a button while hasBuildings[key] is
\* false; the call is offered in every state, so that the building test of
\* the function itself is exercised.
QueueUnit(type, key) ==
    /\ Playable
    /\ Install(queueUnit(Begin, type, key))

\* handleMouseDown and handleMouseUp, left button, outside build mode: a drag
\* from start to mouse.
SelectUnits(start, mouse) ==
    /\ Playable
    /\ buildMode = NoType
    /\ Install(selectUnits(Begin, start, mouse))

\* handleMouseUp, right button, without a drag.
IssueCommand(mouse) ==
    /\ Playable
    /\ Len(particles) < MaxParticles
    /\ Install(issueCommand(Begin, mouse))

Next ==
    \/ Tick
    \/ \E type \in Buildable : SetBuildMode(type)
    \/ \E mouse \in BuildSites : TryPlaceBuilding(mouse)
    \/ \E b \in UnitButtons : QueueUnit(b[1], b[2])
    \/ \E drag \in SelectDrags : SelectUnits(drag[1], drag[2])
    \/ \E mouse \in CommandPoints : IssueCommand(mouse)

Spec == Init /\ [][Next]_vars

----------------------------------------------------------------------------
(* The flights: the frames run on after the Horizon, and the only commands
   are those that put a cannon on the map, within the Horizon *)

\* The tick lies within the Horizon of a starting state.
InHorizon == \E s \in StartTicks : s <= tick /\ tick <= s + Horizon

FlightFrame ==
    /\ \E s \in StartTicks : s <= tick /\ tick <= s + Horizon + FlightFrames
    /\ \E jitter \in [1..(IF IsWaveTick(tick + 1) THEN WaveCount(wave) ELSE 0) -> JitterSet] :
          Install(update(World, jitter))

FlightMode == InHorizon /\ SetBuildMode("CANNON")

FlightPlace(mouse) == InHorizon /\ TryPlaceBuilding(mouse)

FlightNext ==
    \/ FlightFrame
    \/ FlightMode
    \/ \E mouse \in BuildSites : FlightPlace(mouse)

\* loop() asks for the next animation frame at the end of every frame.
FlightSpec == Init /\ [][FlightNext]_vars /\ WF_vars(FlightFrame)

----------------------------------------------------------------------------
(* The specification of the volleys: from FirstWave, whose tank shells the
   yard, and from Picket, whose riflemen fire on a tank, the player places
   cannons and power plants, selects and commands within the Horizon, and
   the frames run on for VolleyFrames more, so that every kind of firing
   actor fires at least twice. *)

\* Free ground right of the yard: three sites side by side and below.
VolleySites == {Vec(Px(1200), Px(1000)), Vec(Px(1240), Px(1000)), Vec(Px(1200), Px(1040))}

VolleyTicks == {FirstWaveTick, PicketTick}

\* The player acts within the Horizon of the starting state.
InVolley == \E s \in VolleyTicks : s <= tick /\ tick <= s + Horizon

VolleyFrame ==
    /\ \E s \in VolleyTicks : s <= tick /\ tick < s + Horizon + VolleyFrames
    /\ Install(update(World, << >>))

VolleyMode(type) == InVolley /\ SetBuildMode(type)

VolleyPlace(mouse) == InVolley /\ TryPlaceBuilding(mouse)

VolleySelect(start, mouse) == InVolley /\ SelectUnits(start, mouse)

VolleyCommand(mouse) == InVolley /\ IssueCommand(mouse)

VolleyNext ==
    \/ VolleyFrame
    \/ \E type \in {"CANNON", "POWER_PLANT"} : VolleyMode(type)
    \/ \E mouse \in VolleySites : VolleyPlace(mouse)
    \/ \E drag \in SelectDrags : VolleySelect(drag[1], drag[2])
    \/ \E mouse \in CommandPoints : VolleyCommand(mouse)

VolleySpec ==
    /\ \E site \in OreSites : StateIs(FirstWave(site)) \/ StateIs(Picket(site))
    /\ [][VolleyNext]_vars

----------------------------------------------------------------------------
(* The specification of the production orders: from Forge, any orders the
   unit buttons give before the first frame, then frames only, for as long
   as the longest order takes.  No building is placed, so that the power
   balance stays at 40 and barracks and factory stay. *)

OrderUnit(type, key) == tick = ForgeTick /\ QueueUnit(type, key)

OrderFrame ==
    /\ tick < ForgeTick + OrderFrames
    /\ Install(update(World, << >>))

OrderNext ==
    \/ OrderFrame
    \/ \E b \in UnitButtons : OrderUnit(b[1], b[2])

OrderSpec == (\E site \in OreSites : StateIs(Forge(site))) /\ [][OrderNext]_vars

----------------------------------------------------------------------------
(* The specification of the completion block of update() as a function of
   the engine's state: the fields of Forge, with any pending orders close to
   completion and with any of barracks and factory taken out of
   this.buildings, then frames.  The fields are public and update() reads
   them as it finds them; in a play nothing takes a barracks or a factory of
   the player out of this.buildings, since no projectile is ever aimed at
   one. *)

\* An order for type with `left` frames to go.
NearlyDone(type, left) ==
    [QueueEntry(type) EXCEPT
        !.progress = (BuildTicks(type) - left) * ProgressPerTick]

\* The orders a slot may hold: none, or one of its buttons' types.
SlotOrders(key) ==
    {NoQueue} \cup
        {NearlyDone(b[1], left) : b \in {u \in UnitButtons : u[2] = key},
                                 left \in 1..LastTicks}

\* w without the buildings of the types in gone, with the given orders.
Stripped(w, gone, orders) ==
    LET Stays(id) == w.ents[id].type \notin gone
    IN  Collect([w EXCEPT !.buildings = SelectSeq(@, Stays),
                          !.productionQueues = orders,
                          !.messages = << >>])

CompletionInit ==
    \E site \in OreSites, gone \in SUBSET {"BARRACKS", "FACTORY"},
       orders \in [QueueKeys -> UNION {SlotOrders(key) : key \in QueueKeys}] :
        /\ \A key \in QueueKeys : orders[key] \in SlotOrders(key)
        /\ StateIs(Stripped(Forge(site), gone, orders))

CompletionFrame ==
    /\ tick < ForgeTick + LastTicks
    /\ Install(update(World, << >>))

CompletionSpec == CompletionInit /\ [][CompletionFrame]_vars

----------------------------------------------------------------------------
(* The runs that lead to the starting states: frames only, from Fresh to
   Rubble with every wave drawing offset 0, and from Built to Harvest *)

IdleTick ==
    /\ tick < (IF Len(buildings) > 1 THEN HarvestTick ELSE RubbleTick)
    /\ Install(update(World, [i \in 1..WaveCount(wave) |-> 0]))

IdleSpec ==
    /\ \E site \in OreSites : StateIs(Fresh(site)) \/ StateIs(Built(site))
    /\ [][IdleTick]_vars

\* Under IdleSpec: the run from Fresh passes through Idle, Approach, FirstShell
\* and FirstWave and Siege and ends in Rubble; the run from Built ends in
\* Harvest.
IdleRun ==
    \E site \in OreSites :
        /\ (tick = HarvestTick /\ Len(buildings) > 1) => StateIs(Harvest(site))
        /\ Len(buildings) = 1 =>
            /\ tick = BeforeWave => StateIs(Idle(site, BeforeWave))
            /\ tick = ApproachTick => StateIs(Approach(site))
            /\ tick = FirstShellTick => StateIs(FirstShell(site))
            /\ tick = FirstWaveTick => StateIs(FirstWave(site))
            /\ tick = SiegeTick => StateIs(Siege(site))
        /\ tick = RubbleTick => StateIs(Rubble(site))

\* The play of Picket: the barracks first, then a rifleman whenever the
\* slot is free until all are ordered, and frames otherwise.
PicketStep ==
    LET riflemen == {i \in 1..Len(units) : ents[units[i]].team = "player"}
    IN  IF Len(buildings) = 1 /\ buildMode = NoType
        THEN SetBuildMode("BARRACKS")
        ELSE IF buildMode # NoType
        THEN TryPlaceBuilding(PicketClick)
        ELSE IF Cardinality(riflemen) < PicketSize /\ productionQueues["barracks"] = NoQueue
        THEN QueueUnit("INFANTRY", "barracks")
        ELSE /\ tick < PicketTick
             /\ Install(update(World, [i \in 1..WaveCount(wave) |-> PicketOffset]))

PicketSpec ==
    /\ \E site \in OreSites : StateIs(Fresh(site))
    /\ [][PicketStep]_vars

\* Under PicketSpec: the run ends in Picket.
PicketRun == \E site \in OreSites : tick = PicketTick => StateIs(Picket(site))

\* The play from Harvest to Forge.
ForgeStep ==
    IF Len(buildings) = 4 /\ buildMode = NoType THEN SetBuildMode("POWER_PLANT")
    ELSE IF Len(buildings) = 4 THEN TryPlaceBuilding(ForgePlantClick)
    ELSE IF Len(buildings) = 5 /\ buildMode = NoType THEN SetBuildMode("FACTORY")
    ELSE IF Len(buildings) = 5 THEN TryPlaceBuilding(ForgeFactoryClick)
    ELSE /\ tick < ForgeTick
         /\ Install(update(World, << >>))

ForgeSpec ==
    /\ \E site \in OreSites : StateIs(Harvest(site))
    /\ [][ForgeStep]_vars

\* Under ForgeSpec: the run ends in Forge.
ForgeRun == \E site \in OreSites : tick = ForgeTick => StateIs(Forge(site))

\* The play from Forge to Rollout: a rifleman ordered at once, then frames.
RolloutStep ==
    IF tick = ForgeTick /\ productionQueues["barracks"] = NoQueue
    THEN QueueUnit("INFANTRY", "barracks")
    ELSE /\ tick < RolloutTick
         /\ Install(update(World, << >>))

RolloutSpec ==
    /\ \E site \in OreSites : StateIs(Forge(site))
    /\ [][RolloutStep]_vars

\* Under RolloutSpec: the run ends in Rollout.
RolloutRun == \E site \in OreSites : tick = RolloutTick => StateIs(Rollout(site))

----------------------------------------------------------------------------
(* Vocabulary of the properties below *)

\* The player's construction yard is in the building collection.
YardStands == SomeBuilding(World, "CONSTRUCTION_YARD", "player")

\* The step is a frame: only update() advances the tick.
IsFrame == tick' = tick + 1

Cost(type) == DEFINITIONS[type].cost

\* The notifications of a handler that reported text and nothing else.
Note(text) == << Msg(text, 0) >>

\* The step is the click of unit button b.
Enqueue(b) == QueueUnit(b[1], b[2])

\* The slot of building class key holds an order.
Occupied(key) == productionQueues[key] # NoQueue

\* The player has a building of class key in the building collection.
Owns(key) == SomeBuilding(World, SpawnerType(key), "player")

\* The step reported text and changed neither the credits nor a slot.
Rejected(text) ==
    /\ messages' = Note(text)
    /\ credits' = credits
    /\ productionQueues' = productionQueues

\* The cause queueUnit reports in the current state for button b, by the
\* order of its tests.
CauseFor(b) ==
    IF credits < Cost(b[1]) THEN "Insufficient Funds"
    ELSE IF Occupied(b[2]) THEN "Production Busy"
    ELSE "Building Required"

\* The footprint a click at mouse asks for, with the current build mode,
\* shares an area with the footprint of a building in the collection: on both
\* axes the later start lies before the earlier end.
SiteTaken(mouse) ==
    LET cell == Px(TILE_SIZE)
        left == mouse.x - (mouse.x % cell)
        top == mouse.y - (mouse.y % cell)
        Shares(b) ==
            /\ Max(left, b.pos.x - FootW(b.type) \div 2)
                 < Min(left + FootW(buildMode), b.pos.x + FootW(b.type) \div 2)
            /\ Max(top, b.pos.y - FootH(b.type) \div 2)
                 < Min(top + FootH(buildMode), b.pos.y + FootH(b.type) \div 2)
    IN  \E i \in 1..Len(buildings) : Shares(ents[buildings[i]])

\* The step is a placement click at mouse on a taken site.
PlaceOnTaken(mouse) ==
    /\ buildMode # NoType
    /\ SiteTaken(mouse)
    /\ TryPlaceBuilding(mouse)

----------------------------------------------------------------------------
(* C1, C2: the loss of the construction yard *)

\* C1, as stated: onGameOver has been invoked no time while the yard stands
\* and exactly one time, in the frame that removed it, ever after.  The code
\* refutes it: update() calls onGameOver in every frame that finds no yard.
C1_SignalledOnce == IF YardStands THEN gameOverCalls = 0 ELSE gameOverCalls = 1

\* C2, as stated: a frame that starts without the yard changes neither the
\* wave index, the units, the buildings, the projectiles, the credits nor the
\* production queues.  The code refutes it: update() has no terminal state.
C2_Terminal ==
    [][(~YardStands /\ IsFrame) =>
          /\ wave' = wave
          /\ credits' = credits
          /\ productionQueues' = productionQueues
          /\ buildings' = buildings
          /\ units' = units
          /\ projectiles' = projectiles
          /\ \A i \in 1..Len(units) : ents'[units[i]] = ents[units[i]]]_vars

----------------------------------------------------------------------------
(* C3, C4: cooldowns and hit points *)

\* C3: in every reachable state the cooldown of every unit and building is
\* at least zero.
C3_CooldownNeverNegative == \A id \in DOMAIN ents : ents[id].cooldown >= 0

\* A tank and a cannon have both fired and counted one frame down since.
C3_BothReloading ==
    /\ \E id \in DOMAIN ents :
          /\ ents[id].type = "TANK"
          /\ ents[id].cooldown = DEFINITIONS["TANK"].fireRate - 1
    /\ \E id \in DOMAIN ents :
          /\ ents[id].type = "CANNON"
          /\ ents[id].cooldown = DEFINITIONS["CANNON"].fireRate - 1

\* C4: in every reachable state the hit points of every entity are at most
\* its maximum hit points.
C4_HpWithinMax == \A id \in DOMAIN ents : ents[id].hp <= ents[id].maxHp

\* A shell of a tank has, in the frame just run, hit an entity that was whole.
C4_JustHit ==
    \E id \in DOMAIN ents, i \in DOMAIN particles :
        /\ ents[id].hp = ents[id].maxHp - DEFINITIONS["TANK"].damage
        /\ particles[i] = [pos |-> ents[id].pos, life |-> 9]

----------------------------------------------------------------------------
(* C5 to C8: queueUnit *)

\* C5, as stated: a click on a unit button whose slot is occupied reports
\* "Production Busy", whatever the credits, and changes neither the credits
\* nor a slot.  Refuted when the credits do not cover the cost.
C5_BusyAlwaysReported ==
    [][\A b \in UnitButtons :
          (Occupied(b[2]) /\ Enqueue(b)) => Rejected("Production Busy")]_vars

\* C5, amended: a click on a unit button whose slot is occupied changes
\* neither the credits nor a slot; it reports "Production Busy" when the
\* credits cover the cost and "Insufficient Funds" when they do not.
C5_BusyRejected ==
    [][\A b \in UnitButtons :
          (Occupied(b[2]) /\ Enqueue(b)) =>
              Rejected(IF credits < Cost(b[1]) THEN "Insufficient Funds"
                       ELSE "Production Busy")]_vars

\* A click was turned away for the occupied slot.
C5_BusyReported == messages = Note("Production Busy") /\ \E k \in QueueKeys : Occupied(k)

\* C6: a click on a unit button whose cost exceeds the credits reports
\* "Insufficient Funds" and changes neither the credits nor a slot.
C6_FundsRejected ==
    [][\A b \in UnitButtons :
          (credits < Cost(b[1]) /\ Enqueue(b)) => Rejected("Insufficient Funds")]_vars

\* A click was turned away for lack of funds.
C6_FundsReported ==
    /\ messages = Note("Insufficient Funds")
    /\ \E b \in UnitButtons : credits < Cost(b[1])

\* The step took the order of button b.
Accepted(b) == messages' = << >> /\ productionQueues'[b[2]] # NoQueue

C8_AcceptedEnqueue ==
    [][\A b \in UnitButtons :
          (Enqueue(b) /\ messages' = << >>) =>
              /\ credits' = credits - Cost(b[1])
              /\ productionQueues'[b[2]] =
                    [type |-> b[1], progress |-> 0,
                     total |-> DEFINITIONS[b[1]].buildTime]
              /\ \A k \in QueueKeys \ {b[2]} :
                    productionQueues'[k] = productionQueues[k]]_vars

\* A tank has just been ordered while the barracks holds an order.
C8_TankOrdered ==
    /\ messages = << >>
    /\ productionQueues["factory"].type = "TANK"
    /\ productionQueues["factory"].progress = 0
    /\ Occupied("barracks")

----------------------------------------------------------------------------
(* C9, C10: tryPlaceBuilding *)

\* C9, as stated: a placement click on a taken site reports "Cannot build
\* here!" and adds no building, whatever the credits.  Refuted when the
\* credits do not cover the cost.
C9_CollisionAlwaysReported ==
    [][\A mouse \in BuildSites :
          PlaceOnTaken(mouse) =>
              (messages' = Note("Cannot build here!") /\ buildings' = buildings)]_vars

\* C9, amended: a placement click on a taken site adds no building, whatever
\* the credits, and reports "Cannot build here!" when the credits cover the
\* cost.
C9_CollisionRejected ==
    [][\A mouse \in BuildSites :
          PlaceOnTaken(mouse) =>
              /\ buildings' = buildings
              /\ credits >= Cost(buildMode) => messages' = Note("Cannot build here!")]_vars

\* A placement click was turned away for the site.
C9_CollisionReported == messages = Note("Cannot build here!") /\ buildMode # NoType

\* C10, as stated: a placement click whose cost exceeds the credits reports
\* a notification and changes neither the credits, the power, the buildings
\* nor the units.  The code refutes it: tryPlaceBuilding returns silently.
C10_FundsReported ==
    [][\A mouse \in BuildSites :
          (buildMode # NoType /\ credits < Cost(buildMode) /\ TryPlaceBuilding(mouse)) =>
              /\ messages' # << >>
              /\ credits' = credits
              /\ power' = power
              /\ buildings' = buildings
              /\ units' = units]_vars

----------------------------------------------------------------------------
(* C11: a successful placement *)

\* The step is a placement click at mouse with the funds and on a free site.
PlaceOnFree(mouse) ==
    /\ buildMode # NoType
    /\ credits >= Cost(buildMode)
    /\ ~SiteTaken(mouse)
    /\ TryPlaceBuilding(mouse)

\* C11: a placement click with the funds and on a free site lowers the
\* credits by the cost of the type, appends one building of the player of
\* that type to the collection and nothing else, and changes the power
\* balance by the power of the type.
C11_Placed ==
    [][\A mouse \in BuildSites :
          PlaceOnFree(mouse) =>
              /\ credits' = credits - Cost(buildMode)
              /\ power' = power + DEFINITIONS[buildMode].power
              /\ Len(buildings') = Len(buildings) + 1
              /\ SubSeq(buildings', 1, Len(buildings)) = buildings
              /\ ents'[buildings'[Len(buildings')]].type = buildMode
              /\ ents'[buildings'[Len(buildings')]].team = "player"]_vars

\* The example of C11: a power plant placed in the initial state, before the
\* second frame, has left 2200 credits and a balance of 20 + 50.
C11_PowerPlantPlaced ==
    /\ tick = 1
    /\ credits = 2200
    /\ power = 70
    /\ Len(buildings) = 2
    /\ ents[buildings[2]].type = "POWER_PLANT"

----------------------------------------------------------------------------
(* C12: the waves *)

\* The hostile units the step adds to the unit collection.
Spawned ==
    {i \in 1..Len(units') :
        /\ ents'[units'[i]].team = "enemy"
        /\ \A k \in 1..Len(units) : units[k] # units'[i]}

\* The step is a frame whose tick is a positive multiple of 5400.
IsWaveFrame == IsFrame /\ tick' > 0 /\ tick' % 5400 = 0

\* C12: a step adds hostile units only when it is a frame whose tick is a
\* positive multiple of 5400; such a frame adds floor(1.5 w) + 2 of them,
\* w being the wave index before it, and raises the index by one; no other
\* step changes the index, and the tick is never zero.
C12_WaveSpawns ==
    [][/\ tick' > 0
       /\ IsWaveFrame =>
              /\ Cardinality(Spawned) = wave + wave \div 2 + 2
              /\ wave' = wave + 1
       /\ ~IsWaveFrame => Spawned = {} /\ wave' = wave]_vars

\* The first wave has come: at tick 5400 three hostile units, the first a
\* tank, are on the map and the index is 2.
C12_FirstWaveCame ==
    /\ tick = WaveInterval
    /\ wave = 2
    /\ Len(units) = 3
    /\ \A i \in 1..3 : ents[units[i]].team = "enemy"
    /\ ents[units[1]].type = "TANK"

----------------------------------------------------------------------------
(* C13: the harvester's round trip *)

\* The harvesters in the unit collection.
Harvesters == {i \in 1..Len(units) : ents[units[i]].type = "HARVESTER"}

\* Harvester i ends its round trip in the step: it starts it with a full
\* load, which makes updateHarvester set it to returning whatever a command
\* of the player has made of its state, and it is idle after the step.
Returns(i) ==
    /\ ents[units[i]].cargo >= 500
    /\ ents'[units[i]].harvestState = "idle"

\* The deposits the step reports.
Deposits == {k \in 1..Len(messages') : messages'[k].text = "Credits"}

\* C13: a frame raises the credits by exactly 500 for every harvester that
\* ends its round trip in it, reports each deposit as one of 500, and leaves
\* each of these harvesters with a cargo of exactly 0; a frame in which no
\* harvester ends a round trip leaves the credits as they were.
C13_RoundTripPays ==
    [][IsFrame =>
          LET home == {i \in Harvesters : Returns(i)}
          IN  /\ credits' = credits + 500 * Cardinality(home)
              /\ Cardinality(Deposits) = Cardinality(home)
              /\ \A k \in Deposits : messages'[k].n = 500
              /\ \A i \in home : ents'[units[i]].cargo = 0]_vars

\* A round trip has just ended: the harvester that held 490 at tick 3199 is
\* idle and empty at tick 3201 and the credits are 500 higher.
C13_JustDeposited ==
    /\ tick = HarvestTick + 2
    /\ credits = 3000
    /\ messages = << Msg("Credits", 500) >>
    /\ \E i \in Harvesters :
           ents[units[i]].cargo = 0 /\ ents[units[i]].harvestState = "idle"

----------------------------------------------------------------------------
(* C14: a projectile closes in on its target *)

\* The squared distance of projectile p to its target in heap.
Off(p, heap) == DistSq(p.pos, heap[p.target].pos)

\* Projectile i reaches its target in the frame: the target, where the frame
\* leaves it, is less than 10 px from where the projectile was.
Impacts(i) ==
    \/ projectiles[i].target \notin DOMAIN ents'
    \/ DistSq(projectiles[i].pos, ents'[projectiles[i].target].pos) < Px(10) * Px(10)

\* The index after the frame of projectile i, which is still in flight:
\* the loop removes the projectiles that reach their targets and keeps the
\* order of the others.
After(i) == Cardinality({j \in 1..i : ~Impacts(j)})

\* C14: a projectile that a frame leaves in flight is, after the frame, no
\* farther from where its target then is than it was before the frame from
\* where its target then was; no other step moves a projectile or a target.
\* The frame after Picket's riflemen fire breaks it: the tank steps within
\* 20 px of the eleven, the repulsion throws it 10.5 px back, and the bullets,
\* which fly 10 px a frame, are farther behind it than they were.
C14_ClosesIn ==
    [][/\ IsFrame =>
            \A i \in 1..Len(projectiles) :
                ~Impacts(i) =>
                    /\ After(i) <= Len(projectiles')
                    /\ projectiles'[After(i)].target = projectiles[i].target
                    /\ projectiles'[After(i)].damage = projectiles[i].damage
                    /\ Off(projectiles'[After(i)], ents') <= Off(projectiles[i], ents)
       /\ ~IsFrame =>
            /\ projectiles' = projectiles
            /\ \A i \in 1..Len(projectiles) : Off(projectiles[i], ents') = Off(projectiles[i], ents)]_vars

----------------------------------------------------------------------------
(* C15: every projectile lands *)

\* C15: under FlightSpec no projectile is in flight for more than
\* FlightFrames frames: each is resolved and removed before, also the one
\* whose target was hit dead and swept while it flew.
C15_Lands == \A i \in 1..Len(projectiles) : projectiles[i].age <= FlightFrames

\* A shell has landed on a swept target: of Siege's two shells the first has
\* destroyed the yard at tick 15236, and the second, then 19.6 px away, has
\* flown on and burst at tick 15238 where the yard stood.
C15_LandedOnSwept ==
    /\ tick = SiegeTick + 4
    /\ ~YardStands
    /\ \A i \in 1..Len(projectiles) : projectiles[i].target # 1
    /\ \E k \in 1..Len(particles) :
           particles[k].pos = Vec(10000, 10000) /\ particles[k].life = 9

----------------------------------------------------------------------------
(* C16: the stored power balance *)

RECURSIVE Balance(_)
\* The power of the player's buildings in the collection from index i on.
Balance(i) ==
    IF i > Len(buildings) THEN 0
    ELSE (IF ents[buildings[i]].team = "player"
          THEN DEFINITIONS[ents[buildings[i]].type].power ELSE 0) + Balance(i + 1)

\* C16: after every frame and every placement the stored power balance is
\* the sum of the power of the player's buildings in the collection.  The
\* frame that sweeps the yard breaks it: the cleanup filters the collection
\* and does not call calculatePower, so the balance keeps the yard's 20.
C16_PowerCurrent == power = Balance(1)

----------------------------------------------------------------------------
(* C17: production and the power balance *)

\* The player's units of the next state that the collection did not hold.
Produced ==
    {i \in 1..Len(units') :
        /\ ents'[units'[i]].team = "player"
        /\ \A k \in 1..Len(units) : units[k] # units'[i]}

\* What one frame with power makes of an occupied slot: its progress grows by
\* ProgressPerTick, and the slot is cleared when that reaches the total.
Advanced(queue) ==
    IF queue.progress + ProgressPerTick >= queue.total THEN NoQueue
    ELSE [queue EXCEPT !.progress = @ + ProgressPerTick]

\* C17: a frame that starts with a negative power balance leaves every
\* production queue as it was (progress kept, no slot cleared) and produces
\* no unit; a frame that starts with a non-negative balance advances the
\* progress of every occupied slot by exactly one tick's increment.
C17_PowerGatesProduction ==
    [][IsFrame =>
        IF power < 0
        THEN /\ productionQueues' = productionQueues
             /\ Produced = {}
        ELSE \A key \in QueueKeys :
                productionQueues[key] # NoQueue =>
                    productionQueues'[key] = Advanced(productionQueues[key])]_vars

\* The frame in which the harvester unloads ran without power: the rifleman
\* ordered two frames earlier keeps the progress of the one frame that had it.
C17_FrozenOrder ==
    /\ tick = HarvestTick + 2
    /\ messages = << Msg("Credits", 500) >>
    /\ power < 0
    /\ productionQueues["barracks"].type = "INFANTRY"
    /\ productionQueues["barracks"].progress = ProgressPerTick

----------------------------------------------------------------------------
(* C18: power, the cannons and the mobile units *)

\* The player's cannons among the buildings.
Cannons ==
    {id \in {buildings[i] : i \in 1..Len(buildings)} : ents[id].team = "player" /\ ents[id].type = "CANNON"}

\* A projectile of the next state that was fired in this frame with the given
\* damage: the projectile phase of the frame has moved it once.
FreshShot(damage) ==
    \E i \in 1..Len(projectiles') :
        projectiles'[i].age = 1 /\ projectiles'[i].damage = damage

\* Unit id starts the frame with a live target in range and its cooldown
\* elapsed.
ReadyToFire(id) ==
    /\ ents[id].targetUnit # NoId
    /\ ~ents[ents[id].targetUnit].dead
    /\ InRange(World, id)
    /\ ents[id].cooldown <= 0

\* C18: in a frame that starts with a negative power balance no cannon of the
\* player fires (none turns, none starts a cooldown, no cannon shell
\* appears); a unit that starts a frame with a live target in range and its
\* cooldown elapsed fires in it, whatever the balance: it ends the frame
\* with the cooldown of a shot just fired, and its projectile is under way.
C18_PowerGatesCannonsOnly ==
    [][IsFrame =>
        /\ power < 0 =>
              /\ \A id \in Cannons :
                    id \in DOMAIN ents' =>
                        /\ ents'[id].turretAngle = ents[id].turretAngle
                        /\ ents'[id].cooldown = ents[id].cooldown
              /\ ~FreshShot(DEFINITIONS["CANNON"].damage)
        /\ \A id \in {units[i] : i \in 1..Len(units)} :
              (ReadyToFire(id) /\ id \in DOMAIN ents') =>
                  /\ ents'[id].cooldown = DEFINITIONS[ents[id].type].fireRate - 1
                  /\ FreshShot(DEFINITIONS[ents[id].type].damage)]_vars

\* Two frames after the tank came in range of the yard: a cannon fired in the
\* first (its shell is two frames old); in the second, without power, its
\* cooldown stood still at the full rate, while the tank fired its shell.
C18_TankFiredCannonFrozen ==
    /\ tick = FirstWaveTick + 2
    /\ power < 0
    /\ \E id \in Cannons : ents[id].cooldown = DEFINITIONS["CANNON"].fireRate
    /\ \E i \in 1..Len(projectiles) :
          projectiles[i].age = 2 /\ projectiles[i].damage = DEFINITIONS["CANNON"].damage
    /\ \E i \in 1..Len(projectiles) :
          projectiles[i].age = 1 /\ projectiles[i].damage = DEFINITIONS["TANK"].damage

----------------------------------------------------------------------------
(* C19: the sweep *)

\* The entities of the unit and building collections.
Present ==
    {units[i] : i \in 1..Len(units)} \cup {buildings[i] : i \in 1..Len(buildings)}

\* C19: after every frame no entity of the unit or building collections has
\* hit points of zero or less, and none has the dead flag set: the hit that
\* takes the last hit points sets the flag, and the cleanup of the same frame
\* filters the entity out.
C19_NoDeadKept ==
    \A id \in Present : ents[id].hp > 0 /\ ~ents[id].dead

\* The frame in which a tank's shell took the yard's last 25 hit points: the
\* yard, dead, is out of the collections (the besiegers' target
\* references are what still holds it).
C19_YardSwept ==
    /\ tick = SiegeTick + 2
    /\ 1 \in DOMAIN ents
    /\ ents[1].type = "CONSTRUCTION_YARD"
    /\ ents[1].hp <= 0
    /\ ents[1].dead
    /\ 1 \notin Present

----------------------------------------------------------------------------
(* C20: target references after the sweep *)

\* C20: after every frame the target of every unit that has one is an entity
\* of the unit or building collections.  The frame that sweeps the yard
\* breaks it: the cleanup filters the collections only, and a unit's
\* reference to a dead target is cleared by the unit's own step of the
\* following frame, so the besiegers end the frame still targeting the yard
\* that is in no collection.
C20_TargetsPresent ==
    \A i \in 1..Len(units) :
        ents[units[i]].targetUnit # NoId => ents[units[i]].targetUnit \in Present

----------------------------------------------------------------------------
(* C21: an order completes on time *)

\* The player's units of the given type that the step adds.
ProducedOf(type) == {i \in Produced : ents'[units'[i]].type = type}

UnitReady == \E k \in 1..Len(messages') : messages'[k] = Msg("Unit Ready", 0)

\* C21: under OrderSpec every order is enqueued at ForgeTick, the power
\* balance is never negative and barracks and factory stand.  A pending
\* order for type T completes in the frame that is the ceil(buildTime(T)/16)-th
\* after ForgeTick: exactly one unit of type T of the player is added, "Unit
\* Ready" is notified and the slot is empty; in every earlier frame the order
\* stays pending and no unit of type T is added.  No frame adds a unit of the
\* player that is not of an order completing in it.
C21_CompletesOnTime ==
    [][IsFrame =>
        /\ power >= 0
        /\ \A key \in QueueKeys :
              LET queue == productionQueues[key]
              IN  queue # NoQueue =>
                    /\ FindBuilding(World, SpawnerType(key), "player") # NoId
                    /\ IF tick' = ForgeTick + BuildTicks(queue.type)
                       THEN /\ productionQueues'[key] = NoQueue
                            /\ Cardinality(ProducedOf(queue.type)) = 1
                            /\ UnitReady
                       ELSE /\ tick' < ForgeTick + BuildTicks(queue.type)
                            /\ productionQueues'[key].type = queue.type
                            /\ ProducedOf(queue.type) = {}
        /\ \A i \in Produced :
              \E key \in QueueKeys :
                  /\ productionQueues[key].type = ents'[units'[i]].type
                  /\ tick' = ForgeTick + BuildTicks(productionQueues[key].type)]_vars

\* The 313th frame after a tank was ordered (5000 / 16 = 312.5): the tank has
\* just left the factory.
C21_TankReady ==
    /\ tick = ForgeTick + 313
    /\ productionQueues["factory"] = NoQueue
    /\ messages = << Msg("Unit Ready", 0) >>
    /\ ents[units[Len(units)]].type = "TANK"
    /\ ents[units[Len(units)]].team = "player"

----------------------------------------------------------------------------
(* C22: completion without a building of the class *)

----------------------------------------------------------------------------
(* C23: a harvester under a move order *)

\* Unit id is a harvester of the player under a move order: idle, as
\* issueCommand leaves it, and bound for a point of a command click.  (No
\* ore patch and no refinery lies on a point of CommandPoints, so that the
\* destination is none of updateHarvester's.)
UnderOrder(heap, id) ==
    /\ heap[id].type = "HARVESTER"
    /\ heap[id].team = "player"
    /\ heap[id].harvestState = "idle"
    /\ heap[id].targetPos \in CommandPoints

\* C23: a frame leaves a harvester under a move order as it is, idle and
\* bound for the ordered point, unless it arrives there in the frame.  The
\* first frame after the order breaks it: updateHarvester runs for every
\* harvester of the player whatever its orders, finds it idle and sends it
\* to the ore (or, full, to the refinery).
C23_OrderHolds ==
    [][IsFrame =>
        \A i \in 1..Len(units) :
            LET id == units[i]
            IN  (UnderOrder(ents, id) /\ id \in DOMAIN ents') =>
                    \/ /\ UnderOrder(ents', id)
                       /\ ents'[id].targetPos = ents[id].targetPos
                    \/ ents'[id].pos = ents[id].targetPos
                    \/ DistLess(ents'[id].pos, ents[id].targetPos, 1)]_vars

----------------------------------------------------------------------------
(* C24: the single-point pick *)

\* The player's units that are selected in the given heap.
SelectedIn(heap, ids) ==
    {i \in 1..Len(ids) : heap[ids[i]].team = "player" /\ heap[ids[i]].selected}

\* The player's units within the pick radius of the point.
InPickRadius(mouse) ==
    {i \in 1..Len(units) :
        ents[units[i]].team = "player" /\ DistLess(ents[units[i]].pos, mouse, 20)}

\* C24: a selection whose drag is a single point leaves at most one unit of
\* the player selected, the nearest to the point of those within the pick
\* radius.  The code sets the flag of every unit of the player within 20
\* px of the point: units standing together are selected together.
C24_PicksOne ==
    [][\A drag \in SelectDrags :
          (drag[1] = drag[2] /\ SelectUnits(drag[1], drag[2])) =>
              /\ Cardinality(SelectedIn(ents', units')) <= 1
              /\ \A i \in SelectedIn(ents', units') :
                    /\ i \in InPickRadius(drag[2])
                    /\ \A k \in InPickRadius(drag[2]) :
                          DistSq(ents[units[i]].pos, drag[2])
                              <= DistSq(ents[units[k]].pos, drag[2])]_vars

----------------------------------------------------------------------------
(* C25: the effect of a move or attack order *)

\* The hostile entities within the pick radius of the point: units within
\* 20 px, buildings within 40 px.
HostilesAt(mouse) ==
    {units[i] : i \in {k \in 1..Len(units) :
        ents[units[k]].team = "enemy" /\ DistLess(ents[units[k]].pos, mouse, 20)}}
    \cup
    {buildings[i] : i \in {k \in 1..Len(buildings) :
        ents[buildings[k]].team = "enemy"
            /\ DistLess(ents[buildings[k]].pos, mouse, 40)}}

\* C25: after a command click every selected unit of the player has exactly
\* one of target and destination: a hostile entity within the pick radius as
\* target and no destination, or, with no hostile entity there, the clicked
\* point as destination and no target; every other unit keeps its target,
\* its destination and its harvest state.
C25_OrderGiven ==
    [][\A mouse \in CommandPoints :
          IssueCommand(mouse) =>
              \A i \in 1..Len(units) :
                  LET u == ents[units[i]]
                      v == ents'[units[i]]
                  IN  IF u.selected /\ u.team = "player"
                      THEN /\ (v.targetUnit = NoId) # (v.targetPos = NoPos)
                           /\ IF HostilesAt(mouse) # {}
                              THEN v.targetUnit \in HostilesAt(mouse) /\ v.targetPos = NoPos
                              ELSE v.targetPos = mouse /\ v.targetUnit = NoId
                      ELSE /\ v.targetUnit = u.targetUnit
                           /\ v.targetPos = u.targetPos
                           /\ v.harvestState = u.harvestState]_vars

\* The riflemen of Picket, who were firing at the tank, have been ordered to
\* attack a rifleman of the wave: the click's particle marks the point.
C25_AttackOrdered ==
    /\ \E k \in 1..Len(particles) :
          particles[k].pos = Vec(Px(1735), Px(1023)) /\ particles[k].life = 20
    /\ \E i \in 1..Len(units) :
          /\ ents[units[i]].team = "player"
          /\ ents[units[i]].selected
          /\ ents[units[i]].targetUnit # NoId
          /\ ents[ents[units[i]].targetUnit].type = "INFANTRY"
          /\ ents[ents[units[i]].targetUnit].team = "enemy"
          /\ ents[units[i]].targetPos = NoPos

----------------------------------------------------------------------------
(* C26: buildings on the grid *)

\* C26: the top-left corner of the footprint of every building, its centre
\* less half the footprint, lies on a multiple of the cell size in both
\* axes.  The construction yard breaks it from the start: the snap of
\* createEntity is guarded by `type in [...]`, which asks whether the type's
\* name is an index of the array and is false for every type, so the yard
\* keeps the centre (1000, 1000) it is created with and its corner is at
\* (940, 940).
C26_OnGrid ==
    \A i \in 1..Len(buildings) :
        /\ FootRect(ents[buildings[i]]).x % Px(TILE_SIZE) = 0
        /\ FootRect(ents[buildings[i]]).y % Px(TILE_SIZE) = 0

----------------------------------------------------------------------------
(* C27: the cooldown over a frame *)

\* The actors that can fire: the units and the player's cannons.
Actors == {units[i] : i \in 1..Len(units)} \cup Cannons

\* C27: every actor that can fire ends a frame either with the fire rate of
\* its type as cooldown, having fired in it, or with its previous cooldown
\* less one, and not below zero.  A unit that fires breaks it: the unit phase
\* sets the cooldown to the fire rate and decrements it in the same pass, so
\* the unit ends the frame at the fire rate less one.  (So does a cannon
\* without power, whose cooldown stands still.)
C27_CooldownRule ==
    [][IsFrame =>
        \A id \in Actors \cap DOMAIN ents' :
            \/ ents'[id].cooldown = DEFINITIONS[ents[id].type].fireRate
            \/ ents'[id].cooldown = Max(0, ents[id].cooldown - 1)]_vars

----------------------------------------------------------------------------
(* C28: the default target of the hostile units *)

\* Unit id is hostile and starts the step with neither target nor
\* destination.
Unordered(id) ==
    /\ ents[id].team = "enemy"
    /\ ents[id].targetUnit = NoId
    /\ ents[id].targetPos = NoPos

\* C28: a frame that starts with the player's construction yard among the
\* buildings gives every hostile unit that has neither target nor
\* destination the yard as target; a frame that starts without the yard
\* gives such a unit no yard: it ends the frame without a target or with one
\* that getNearestEnemy can return, an entity of team "enemy" of the unit or
\* building collections.
C28_DefaultTarget ==
    [][IsFrame =>
        \A id \in {units[i] : i \in 1..Len(units)} \cap DOMAIN ents' :
            Unordered(id) =>
                LET hq == FindBuilding(World, "CONSTRUCTION_YARD", "player")
                    t == ents'[id].targetUnit
                IN  IF hq # NoId THEN t = hq
                    ELSE \/ t = NoId
                         \/ /\ ents'[t].type # "CONSTRUCTION_YARD"
                            /\ ents'[t].team = "enemy"
                            /\ t \in Present]_vars

\* The frame after Rubble: with the yard gone, the besiegers, who had
\* dropped it, have targets again, and none is a yard.
C28_RetargetedInRubble ==
    /\ tick = RubbleTick + 1
    /\ buildings = << >>
    /\ \A i \in 1..Len(units) :
          /\ ents[units[i]].team = "enemy"
          /\ ents[units[i]].targetUnit \in Present

----------------------------------------------------------------------------
(* C29: a pending order is never cancelled or altered *)

\* C29: no step changes the unit type or the total of an occupied slot or
\* lowers its progress, and a slot is emptied only by a frame in which its
\* progress reaches or exceeds its total.
C29_OrderStands ==
    [][\A key \in QueueKeys :
          LET queue == productionQueues[key]
              after == productionQueues'[key]
          IN  queue # NoQueue =>
                  IF after = NoQueue
                  THEN IsFrame /\ queue.progress + ProgressPerTick >= queue.total
                  ELSE /\ after.type = queue.type
                       /\ after.total = queue.total
                       /\ after.progress >= queue.progress]_vars

\* The rifleman of Rollout has left the barracks while a tank ordered
\* meanwhile is in the making: its slot stood through the completion.
C29_RiflemanOutTankPending ==
    /\ tick = RolloutTick + 2
    /\ productionQueues["barracks"] = NoQueue
    /\ messages = << Msg("Unit Ready", 0) >>
    /\ productionQueues["factory"].type = "TANK"
    /\ productionQueues["factory"].progress = ProgressPerTick

----------------------------------------------------------------------------
(* C30: targets are of the other side *)

\* C30: the target of every unit that has one is an entity of the other
\* side, and so never the unit itself.  The frame after Rubble breaks it: getNearestEnemy looks for team "enemy"
\* whoever asks, so a hostile unit without the yard to attack finds the
\* nearest hostile unit, itself at distance 0 unless another stands on the
\* same point earlier in the collection, and fires at it.
C30_TargetsOppose ==
    \A i \in 1..Len(units) :
        LET u == ents[units[i]]
        IN  u.targetUnit # NoId =>
                /\ u.targetUnit # units[i]
                /\ ents[u.targetUnit].team # u.team

----------------------------------------------------------------------------
(* C31: footprints of buildings *)

\* The footprints of the buildings at places i and j of the collection.
FootOf(i) == FootRect(ents[buildings[i]])

\* Two footprints that share a vertical edge along some stretch.
Abut(a, b) == a.x + a.w = b.x /\ a.y < b.y + b.h /\ a.y + a.h > b.y

\* C31: in every reachable state no two buildings of the collection have
\* overlapping footprints (rectangles of w by h tiles centred on the
\* building's position), the construction yard included.
C31_NoOverlap ==
    \A i \in 1..Len(buildings) : \A j \in 1..Len(buildings) :
        i # j => ~Overlaps(FootOf(i), FootOf(j))

\* Two buildings stand wall to wall, the second placed by a click after the
\* first, beside a yard that still stands.
C31_WallToWall ==
    /\ YardStands
    /\ \E i \in 1..Len(buildings) : \E j \in 1..Len(buildings) :
          /\ i < j
          /\ ents[buildings[i]].type # "CONSTRUCTION_YARD"
          /\ Abut(FootOf(i), FootOf(j))

----------------------------------------------------------------------------
(* C32: credits *)

\* A step that takes the cost of some catalog entry from credits that
\* covered it.
Deducts ==
    \E t \in Buildable \cup UnitTypes :
        credits >= Cost(t) /\ credits' = credits - Cost(t)

\* C32: the credits are never negative: every step that changes them either
\* takes a cost that the credits covered (a placement, an accepted order) or
\* is a frame that adds the deposits of harvesters, which are not negative.
C32_CreditsNotNegative ==
    /\ [](credits >= 0)
    /\ [][credits' # credits => \/ Deducts
                                \/ IsFrame /\ credits' > credits]_vars

\* A placement and an order have taken the last credit: a seventh building
\* stands, the factory works on an order, and nothing is left.
C32_SpentOut ==
    /\ credits = 0
    /\ Len(buildings) >= 7
    /\ productionQueues["factory"] # NoQueue

----------------------------------------------------------------------------
(* C33: damage and swept targets *)

\* C33: damage is applied only to an entity of the unit or building
\* collections: every projectile that lands in a frame, and so takes its
\* damage from its target's hit points, has a target that was in the
\* collections when the frame began.  The frame after Rubble breaks it: the
\* tank shell that was in flight when the yard was swept holds the yard
\* itself, not a place in a collection, flies on to where it stood, and
\* takes 35 from the hit points of the swept yard (-10 to -45).
C33_DamageOnPresent ==
    [][IsFrame =>
          \A i \in 1..Len(projectiles) :
              Impacts(i) => projectiles[i].target \in Present]_vars

----------------------------------------------------------------------------
(* C34: the time between two shots *)

\* The fire rate of entity id.
RateOf(id) == DEFINITIONS[ents[id].type].fireRate

\* Entity id fires in the step: the step is a frame and leaves it with no
\* frame ended since its last shot.
Fires(id) == IsFrame /\ id \in DOMAIN ents' /\ ents'[id].sinceShot = 0

\* C34: under VolleySpec, whatever the player places, selects and commands
\* and however the power balance changes, an actor with a positive fire rate
\* (rifleman 20, tank 90, cannon 60) fires only in a frame before which at
\* least fireRate - 1 frames have ended since the frame of its last shot,
\* that is at least fireRate ticks after that shot; and no step but a frame
\* fires a shot.
C34_ShotsApart ==
    [][/\ \A id \in DOMAIN ents :
              RateOf(id) > 0 /\ Fires(id) => ents[id].sinceShot >= RateOf(id) - 1
       /\ ~IsFrame => Len(projectiles') = Len(projectiles)]_vars

\* The entities of the collections, of the given type and team, whose last
\* shot is less than their fire rate of frames back.
FiredLately(type, team) ==
    {id \in Present : /\ ents[id].type = type
                      /\ ents[id].team = team
                      /\ ents[id].sinceShot < RateOf(id)}

\* A tank and a cannon have both fired twice in the run from FirstWave: the
\* tank's shell of tick 7109 has landed on the yard (4930 hit points are
\* left) and its shot of tick 7199 is behind it; a cannon placed at the
\* start has landed two shells on the tank (320 of 400 hit points are left),
\* the second fired 61 frames after the first.
C34_TankAndCannonAgain ==
    /\ tick >= FirstWaveTick + VolleyFrames
    /\ tick <= FirstWaveTick + Horizon + VolleyFrames
    /\ ents[1].hp = 4930
    /\ FiredLately("CANNON", "player") # {}
    /\ \E id \in FiredLately("TANK", "enemy") : ents[id].hp = 320

----------------------------------------------------------------------------
(* C35: who is fired at *)

\* Entity id is of the player's side and is not the construction yard.
Spared(id) == ents[id].team = "player" /\ ents[id].type # "CONSTRUCTION_YARD"

\* C35: no entity of the player's side other than the construction yard
\* ever loses hit points: every projectile targets the yard or an entity of
\* the hostile side, and every unit and building of the player but the yard
\* has all its hit points.
C35_OnlyYardHit ==
    /\ \A i \in 1..Len(projectiles) : ~Spared(projectiles[i].target)
    /\ \A id \in DOMAIN ents : Spared(id) => ents[id].hp = ents[id].maxHp

\* The tank of FirstWave fires past a cannon: the player has placed a cannon
\* 45 px from the tank, nearer than the yard 180 px away, the tank's shell
\* of tick 7109 is on its way to the yard, and the cannon is whole.
C35_ShellPassesCannon ==
    /\ tick = FirstWaveTick + 2
    /\ \E i \in 1..Len(projectiles) :
           /\ projectiles[i].target = 1
           /\ projectiles[i].damage = DEFINITIONS["TANK"].damage
           /\ projectiles[i].age = 1
    /\ \E id \in Present : \E foe \in Present :
           /\ ents[id].type = "CANNON"
           /\ ents[id].hp = ents[id].maxHp
           /\ ents[foe].type = "TANK"
           /\ ents[foe].team = "enemy"
           /\ DistLess(ents[id].pos, ents[foe].pos, DEFINITIONS["TANK"].range)

====
